---------------------------- MODULE Spec2Model ----------------------------
(***************************************************************************)
(* Evidence grounding and rating-consistency guards of lrrit-llm.          *)
(*                                                                         *)
(* Several state machines share this module:                               *)
(*   SpecMatch  the quote matcher of laj_meta.py, applied to drawn inputs  *)
(*   SpecMatchShort    the matcher on blocks shorter than the window       *)
(*   SpecMatchWindows  the matcher on blocks of several windows            *)
(*   SpecGuard  one run of a dimension judge (D1..D5): parse, then guard   *)
(*   SpecMeta   one run of LaJMetaEvaluator: context, call, parse, guard   *)
(*   SpecParse  _parse_response on the text of a completion                *)
(*   SpecFanOut runs of LaJMetaEvaluator for several dimensions, their     *)
(*              steps interleaved, over one evidence store                 *)
(*                                                                         *)
(* A Python str is modelled as a sequence of characters; a character is a  *)
(* one-letter TLA+ string, or a bracketed name for a non-ASCII code point. *)
(***************************************************************************)
EXTENDS Integers, Sequences, FiniteSets, TLC

VARIABLES
    \* --- SpecMatch
    mpc,        \* "input" | "done"
    quote,      \* the quote handed to quote_matches_block
    block,      \* the block handed to quote_matches_block
    matched,    \* its return value
    \* --- SpecGuard
    gpc,        \* "parsed" | "guarded" | "returned"
    agent,      \* "D1" .. "D5"
    parsed,     \* the verdict as _parse_response returned it
    result,     \* the verdict dict the guard works on
    output,     \* what run() returns
    \* --- SpecMeta
    xpc,                \* "start" | "built" | "called" | "parsed" | "guarded" | "done" | "failed"
    pack,               \* the EvidencePack: text_chunks and tables
    agent_output,       \* the dimension judge's output handed to run
    strict_quote_check, \* the argument of run
    flags,              \* the programmatic flags
    blocks,             \* the blocks list of _build_evidence_context
    evidence_context,   \* the joined context handed to the prompt
    raw,                \* the completion's response
    laj_parsed,         \* the parsed (then guarded) response
    verdict,            \* the MetaVerdict run returns
    raised,             \* "none", or the error that ended the run
    \* --- SpecParse
    ppc,        \* "called" | "parsed" | "returned" | "failed"
    judge,      \* "agent" (D1..D5) | "LaJ"
    response,   \* the text the completion returned
    recovered,  \* what _parse_response returned
    failure,    \* "none", or the error that ended the run
    returned,   \* the verdict run returns
    \* --- SpecFanOut
    store,      \* the EvidencePack every run is handed
    outputs,    \* by dimension, the agent output its run is handed
    frames,     \* by dimension, the locals of its call of run
    results     \* by dimension, what its call of run returned

vars == <<mpc, quote, block, matched, gpc, agent, parsed, result, output,
          xpc, pack, agent_output, strict_quote_check, flags, blocks,
          evidence_context, raw, laj_parsed, verdict, raised,
          ppc, judge, response, recovered, failure, returned,
          store, outputs, frames, results>>

matchVars == <<mpc, quote, block, matched>>
guardVars == <<gpc, agent, parsed, result, output>>
metaVars == <<xpc, pack, agent_output, strict_quote_check, flags, blocks,
              evidence_context, raw, laj_parsed, verdict, raised>>
parseVars == <<ppc, judge, response, recovered, failure, returned>>
fanVars == <<store, outputs, frames, results>>

-----------------------------------------------------------------------------
(* Characters *)

SHY == "[shy]"          \* U+00AD soft hyphen
LDQ == "[ldq]"          \* U+201C
RDQ == "[rdq]"          \* U+201D
LSQ == "[lsq]"          \* U+2018
RSQ == "[rsq]"          \* U+2019
ENDASH == "[en]"        \* U+2013
EMDASH == "[em]"        \* U+2014
EACUTE == "[e']"        \* U+00E9, a letter outside a-z
EACUTEUP == "[E']"      \* U+00C9
DQUOTE == "[dquote]"    \* the ASCII double quote
BACKSLASH == "[bslash]" \* the backslash
BACKTICK == "[btick]"   \* the grave accent

AsciiLower ==
    {"a","b","c","d","e","f","g","h","i","j","k","l","m",
     "n","o","p","q","r","s","t","u","v","w","x","y","z"}

UpperToLower ==
    [A |-> "a", B |-> "b", C |-> "c", D |-> "d", E |-> "e", F |-> "f",
     G |-> "g", H |-> "h", I |-> "i", J |-> "j", K |-> "k", L |-> "l",
     M |-> "m", N |-> "n", O |-> "o", P |-> "p", Q |-> "q", R |-> "r",
     S |-> "s", T |-> "t", U |-> "u", V |-> "v", W |-> "w", X |-> "x",
     Y |-> "y", Z |-> "z"]

AsciiUpper == DOMAIN UpperToLower

Digits == {"0","1","2","3","4","5","6","7","8","9"}

\* string.punctuation
Punctuation ==
    {"!", DQUOTE, "#", "$", "%", "&", "'", "(", ")", "*", "+", ",", "-", ".",
     "/", ":", ";", "<", "=", ">", "?", "@", "[", BACKSLASH, "]", "^", "_", BACKTICK,
     "{", "|", "}", "~"}

\* what str.strip() removes and \s matches
Whitespace == {" ", "\n", "\t", "\r"}

\* [a-z0-9]
AlnumLower == AsciiLower \cup Digits

\* \w of a str pattern: Unicode letters and digits, and the underscore
WordChars == AsciiLower \cup AsciiUpper \cup Digits \cup {"_", EACUTE, EACUTEUP}

\* str.lower(), one character
LowerChar(c) ==
    IF c \in AsciiUpper THEN UpperToLower[c]
    ELSE IF c = EACUTEUP THEN EACUTE
    ELSE c

-----------------------------------------------------------------------------
(* Strings *)

Max(a, b) == IF a >= b THEN a ELSE b
Min(a, b) == IF a <= b THEN a ELSE b

\* s[i:j] of Python, 0-based, for 0 <= i and any j
Slice(s, i, j) ==
    IF Min(j, Len(s)) <= i THEN << >> ELSE SubSeq(s, i + 1, Min(j, Len(s)))

\* needle in hay
Contains(hay, needle) ==
    LET h == hay
        n == needle
    IN  \E i \in 0..(Len(h) - Len(n)) : \A k \in 1..Len(n) : h[i + k] = n[k]

\* str.strip()
Strip(s) ==
    LET keep == {i \in 1..Len(s) : s[i] \notin Whitespace}
    IN  IF keep = {} THEN << >>
        ELSE LET lo == CHOOSE i \in keep : \A k \in keep : i <= k
                 hi == CHOOSE i \in keep : \A k \in keep : i >= k
             IN  SubSeq(s, lo, hi)

\* str.lower()
Lower(s) == [i \in 1..Len(s) |-> LowerChar(s[i])]

\* the two .replace chains of _canon, one character
AsciiQuoteDash(c) ==
    IF c \in {LDQ, RDQ} THEN DQUOTE
    ELSE IF c \in {LSQ, RSQ} THEN "'"
    ELSE IF c \in {ENDASH, EMDASH} THEN "-"
    ELSE c

\* the first index > i of s that holds no whitespace (Len(s)+1 when none)
RECURSIVE SkipSpace(_, _)
SkipSpace(s, i) ==
    IF i <= Len(s) /\ s[i] \in Whitespace THEN SkipSpace(s, i + 1) ELSE i

\* _HYPHEN_LINEBREAK_RE.sub(r"\1\2", s), scanning from index i: a match
\* (\w)-\s+(\w) consumes both word characters, so the second one cannot
\* open the next match
RECURSIVE Dehyphenate(_, _)
Dehyphenate(s, i) ==
    IF i > Len(s) THEN << >>
    ELSE LET k == SkipSpace(s, i + 2)
             hit == /\ s[i] \in WordChars
                    /\ i + 3 <= Len(s)
                    /\ s[i + 1] = "-"
                    /\ s[i + 2] \in Whitespace
                    /\ k <= Len(s)
                    /\ s[k] \in WordChars
         IN  IF hit THEN <<s[i], s[k]>> \o Dehyphenate(s, k + 1)
             ELSE <<s[i]>> \o Dehyphenate(s, i + 1)

PunctToSpace(c) == IF c \in Punctuation THEN " " ELSE c

\* _WS_RE.sub(" ", s): every maximal whitespace run becomes one space
RECURSIVE CollapseWs(_, _)
CollapseWs(s, i) ==
    IF i > Len(s) THEN << >>
    ELSE IF s[i] \in Whitespace
         THEN <<" ">> \o CollapseWs(s, SkipSpace(s, i))
         ELSE <<s[i]>> \o CollapseWs(s, i + 1)

Canon(s) ==
    LET s1 == Strip(s)
        s2 == SelectSeq(s1, LAMBDA c : c # SHY)
        s3 == [i \in 1..Len(s2) |-> AsciiQuoteDash(s2[i])]
        s4 == Dehyphenate(s3, 1)
        s5 == Lower(s4)
        s6 == [i \in 1..Len(s5) |-> PunctToSpace(s5[i])]
    IN  Strip(CollapseWs(s6, 1))

\* _compact
Compact(s) == SelectSeq(Canon(s), LAMBDA c : c \in AlnumLower)

\* the end (exclusive index) of the [a-z0-9] run that starts at i
RECURSIVE RunEnd(_, _)
RunEnd(s, i) ==
    IF i <= Len(s) /\ s[i] \in AlnumLower THEN RunEnd(s, i + 1) ELSE i

\* _TOKEN_RE.findall(s) from index i
RECURSIVE FindTokens(_, _)
FindTokens(s, i) ==
    IF i > Len(s) THEN << >>
    ELSE IF s[i] \in AlnumLower
         THEN <<SubSeq(s, i, RunEnd(s, i) - 1)>> \o FindTokens(s, RunEnd(s, i))
         ELSE FindTokens(s, i + 1)

\* _tokens
Tokens(s) == FindTokens(Canon(s), 1)

-----------------------------------------------------------------------------
(* The quote matcher: laj_meta.py *)

MinFuzzyTokens == 6     \* len(qt) < 6: the fuzzy test is not attempted
Slack == 10             \* slack
MinRatioPct == 80       \* min_ratio = 0.80, in hundredths

\* a count of the quote tokens found anywhere in the window, in any order
BagHits(window, qt, k, j, hits) ==
    Cardinality({i \in 1..Len(qt) : \E m \in 1..Len(window) : window[m] = qt[i]})

\* a count of the window tokens that equal the quote token at their own
\* position
CountHitsAligned(window, qt, k, j, hits) ==
    Cardinality({m \in 1..Min(Len(window), Len(qt)) : window[m] = qt[m]})

\* the inner loop of _token_fuzzy_match over window[k..], with the pointer j
\* into the quote tokens (0-based) and the hits so far
RECURSIVE CountHits(_, _, _, _, _)
CountHits(window, qt, k, j, hits) ==
    IF k > Len(window) THEN hits
    ELSE LET hit == j < Len(qt) /\ window[k] = qt[j + 1]
             j2 == IF hit THEN j + 1 ELSE j
             h2 == IF hit THEN hits + 1 ELSE hits
         IN  IF j2 = Len(qt) THEN h2
             ELSE CountHits(window, qt, k + 1, j2, h2)

\* hits / len(qt) >= min_ratio
RatioReached(hits, n) == hits * 100 >= MinRatioPct * n

\* start offsets only where a whole window fits in the block
WindowStartsFitting(nb, win) == 0..(nb - win)

\* the start offsets the loop visits: range(0, max(1, len(bt) - win + 1))
WindowStarts(nb, win) == 0..(Max(1, nb - win + 1) - 1)

\* _token_fuzzy_match without its short-quote return
FuzzyAnyLength(q, b) ==
    LET qt == Tokens(q)
        bt == Tokens(b)
        win == Len(qt) + Slack
    IN  qt # << >> /\ \E i \in WindowStarts(Len(bt), win) :
            RatioReached(CountHits(Slice(bt, i, i + win), qt, 1, 0, 0), Len(qt))

\* _token_fuzzy_match
TokenFuzzyMatch(q, b) ==
    LET qt == Tokens(q)
        bt == Tokens(b)
        win == Len(qt) + Slack
    IN  IF Len(qt) < MinFuzzyTokens THEN FALSE
        ELSE \E i \in WindowStarts(Len(bt), win) :
                RatioReached(CountHits(Slice(bt, i, i + win), qt, 1, 0, 0),
                             Len(qt))

\* the tokens p occur in w in order, not necessarily side by side (decided
\* from the right end)
RECURSIVE Embeds(_, _)
Embeds(p, w) ==
    IF p = << >> THEN TRUE
    ELSE IF w = << >> THEN FALSE
    ELSE Embeds(IF p[Len(p)] = w[Len(w)] THEN SubSeq(p, 1, Len(p) - 1) ELSE p,
                SubSeq(w, 1, Len(w) - 1))

\* ceil(min_ratio * n): the hits a quote of n tokens needs
HitsNeeded(n) == (MinRatioPct * n + 99) \div 100

\* test 1 of quote_matches_block: q1 and q1 in b1
CanonContained(q, b) ==
    Canon(q) # << >> /\ Contains(Canon(b), Canon(q))

\* test 2 of quote_matches_block: q2 and q2 in b2
CompactContained(q, b) ==
    Compact(q) # << >> /\ Contains(Compact(b), Compact(q))

\* quote_matches_block with the canonical test left out
MatchWithoutCanon(q, b) ==
    IF q = << >> \/ b = << >> THEN FALSE
    ELSE IF CompactContained(q, b) THEN TRUE
    ELSE TokenFuzzyMatch(q, b)

\* quote_matches_block
QuoteMatchesBlock(q, b) ==
    IF q = << >> \/ b = << >> THEN FALSE
    ELSE IF CanonContained(q, b) THEN TRUE
    ELSE IF CompactContained(q, b) THEN TRUE
    ELSE TokenFuzzyMatch(q, b)

-----------------------------------------------------------------------------
(* The dimension judges D1..D5: agents/*.py *)

(* A verdict is what _normalise_obj returns:                               *)
(*   [rating, rationale, evidence, uncertainty]                            *)
(* with evidence a sequence of [id, quote, evidence_type]. The rating      *)
(* "NONE" stands for a missing rating or any string outside the enum, the  *)
(* evidence type "other" for anything but "positive" and "negative". The   *)
(* rationale is never read and stays an opaque string.                     *)

\* D4BlameLanguageAgent.BLAME_CUES
BLAME_CUES ==
    { <<"f","a","i","l","e","d">>,   \* failed
      <<"s","h","o","u","l","d"," ","h","a","v","e">>,   \* should have
      <<"s","h","o","u","l","d","'","v","e">>,   \* should've
      <<"d","i","d"," ","n","o","t">>,   \* did not
      <<"d","i","d","n","'","t">>,   \* didn't
      <<"n","o","n","-","c","o","m","p","l","i","a","n","c","e">>,   \* non-compliance
      <<"n","e","g","l","i","g">>,   \* neglig
      <<"c","a","r","e","l","e","s","s">>,   \* careless
      <<"i","n","c","o","m","p","e","t">>,   \* incompet
      <<"t","o"," ","b","l","a","m","e">>,   \* to blame
      <<"f","a","u","l","t">> }   \* fault

\* D4BlameLanguageAgent.PERSON_TOKENS
PERSON_TOKENS ==
    { <<"s","t","a","f","f">>,   \* staff
      <<"t","e","a","m">>,   \* team
      <<"s","h","o">>,   \* sho
      <<"d","o","c","t","o","r">>,   \* doctor
      <<"n","u","r","s","e">>,   \* nurse
      <<"c","o","n","s","u","l","t","a","n","t">>,   \* consultant
      <<"t","h","e","y">>,   \* they
      <<"h","e">>,   \* he
      <<"s","h","e">>,   \* she
      <<"w","e">> }   \* we

\* D5LocalRationalityAgent.LOCAL_RATIONALE_CUES
LOCAL_RATIONALE_CUES ==
    { <<"a","t"," ","t","h","e"," ","t","i","m","e">>,   \* at the time
      <<"b","a","s","e","d"," ","o","n">>,   \* based on
      <<"g","i","v","e","n">>,   \* given
      <<"i","n"," ","t","h","e"," ","c","o","n","t","e","x","t">>,   \* in the context
      <<"i","n","i","t","i","a","l","l","y">>,   \* initially
      <<"w","o","r","k","i","n","g"," ","d","i","a","g","n","o","s","i","s">>,   \* working diagnosis
      <<"a","p","p","e","a","r","e","d">>,   \* appeared
      <<"i","n","t","e","r","p","r","e","t","e","d">>,   \* interpreted
      <<"t","h","o","u","g","h","t">>,   \* thought
      <<"b","e","l","i","e","v","e","d">>,   \* believed
      <<"c","o","n","c","e","r","n">>,   \* concern
      <<"u","n","c","e","r","t","a","i","n">>,   \* uncertain
      <<"u","n","c","e","r","t","a","i","n","t","y">>,   \* uncertainty
      <<"a","m","b","i","g","u">>,   \* ambigu
      <<"l","i","m","i","t","e","d"," ","i","n","f","o","r","m","a","t","i","o","n">>,   \* limited information
      <<"c","o","m","p","e","t","i","n","g">>,   \* competing
      <<"p","r","i","o","r","i","t","y">>,   \* priority
      <<"t","r","a","d","e","-","o","f","f">>,   \* trade-off
      <<"c","a","p","a","c","i","t","y">>,   \* capacity
      <<"a","v","a","i","l","a","b","i","l","i","t","y">>,   \* availability
      <<"h","a","n","d","o","v","e","r">>,   \* handover
      <<"p","a","t","h","w","a","y">>,   \* pathway
      <<"a","c","c","e","s","s">>,   \* access
      <<"r","e","s","o","u","r","c","e">>,   \* resource
      <<"w","o","r","k","l","o","a","d">>,   \* workload
      <<"p","r","e","s","s","u","r","e">> }   \* pressure

\* D5LocalRationalityAgent.HINDSIGHT_CUES
HINDSIGHT_CUES ==
    { <<"s","h","o","u","l","d"," ","h","a","v","e">>,   \* should have
      <<"s","h","o","u","l","d","'","v","e">>,   \* should've
      <<"f","a","i","l","e","d"," ","t","o">>,   \* failed to
      <<"d","i","d"," ","n","o","t">>,   \* did not
      <<"d","i","d","n","'","t">>,   \* didn't
      <<"o","b","v","i","o","u","s">>,   \* obvious
      <<"c","l","e","a","r","l","y">>,   \* clearly
      <<"i","n"," ","h","i","n","d","s","i","g","h","t">>,   \* in hindsight
      <<"n","e","g","l","i","g">>,   \* neglig
      <<"i","n","c","o","m","p","e","t">>,   \* incompet
      <<"t","o"," ","b","l","a","m","e">>,   \* to blame
      <<"f","a","u","l","t">> }   \* fault

\* D5LocalRationalityAgent.COUNTERFACTUAL_CUES
COUNTERFACTUAL_CUES ==
    { <<"n","o"," ","c","e","r","t","a","i","n","t","y">>,   \* no certainty
      <<"c","a","n","n","o","t"," ","d","e","t","e","r","m","i","n","e">>,   \* cannot determine
      <<"c","a","n","'","t"," ","d","e","t","e","r","m","i","n","e">>,   \* can't determine
      <<"u","n","c","l","e","a","r"," ","w","h","e","t","h","e","r">>,   \* unclear whether
      <<"w","e"," ","c","a","n","n","o","t"," ","d","e","t","e","r","m","i","n","e">>,   \* we cannot determine
      <<"n","o"," ","w","a","y"," ","o","f"," ","k","n","o","w","i","n","g">> }   \* no way of knowing

\* D5LocalRationalityAgent.REASSURANCE_CUES
REASSURANCE_CUES ==
    { <<"t","i","m","e","l","y">>,   \* timely
      <<"a","p","p","r","o","p","r","i","a","t","e">>,   \* appropriate
      <<"g","o","o","d"," ","c","a","r","e">>,   \* good care
      <<"m","a","n","a","g","e","d"," ","w","e","l","l">> }   \* managed well


\* a cue test that asks for a word of the quote to be the cue
AnyCueWord(q, cues) == \E c \in cues : \E i \in 1..Len(Tokens(q)) : Tokens(q)[i] = c

\* any(cue in q for cue in cues)
AnyCue(q, cues) == \E c \in cues : Contains(q, c)

\* any(e.get("evidence_type") == t for e in evidence)
HasType(evidence, t) == \E i \in 1..Len(evidence) : evidence[i].evidence_type = t

Uncertain(r) == [r EXCEPT !.uncertainty = TRUE]

\* the guard lines of D1CompassionAgent.run
D1Guards(r) ==
    LET r1 == IF r.rating \in {"GOOD", "SOME"} /\ ~HasType(r.evidence, "positive")
              THEN Uncertain(r) ELSE r
    IN  IF r1.rating = "LITTLE" /\ r1.evidence = << >> THEN Uncertain(r1) ELSE r1

\* the rating consistency checks shared by D2..D5, on a non-empty list
RatingConsistent(r) ==
    /\ ~(r.rating = "GOOD" /\ ~HasType(r.evidence, "positive"))
    /\ ~(r.rating = "LITTLE" /\ ~HasType(r.evidence, "negative"))

\* D2SystemsApproachAgent._apply_guards without its empty-evidence return
D2GuardsNoEmptyCheck(r) ==
    IF ~RatingConsistent(r) THEN Uncertain(r) ELSE r

\* D2SystemsApproachAgent._apply_guards
D2ApplyGuards(r) ==
    IF r.evidence = << >> THEN Uncertain(r)
    ELSE IF ~RatingConsistent(r) THEN Uncertain(r)
    ELSE r

\* D3LearningActionsAgent._apply_guards assigning the flag where it should
\* only raise it
D3GuardsAssign(r) ==
    [r EXCEPT !.uncertainty = (r.evidence = << >> \/ ~RatingConsistent(r))]

\* D3LearningActionsAgent._apply_guards
D3ApplyGuards(r) ==
    IF r.evidence = << >> THEN Uncertain(r)
    ELSE IF ~RatingConsistent(r) THEN Uncertain(r)
    ELSE r

\* D4: a negative item whose quote has neither a blame cue nor a person token
D4Unsupported(e) ==
    /\ e.evidence_type = "negative"
    /\ ~AnyCue(Lower(e.quote), BLAME_CUES)
    /\ ~AnyCue(Lower(e.quote), PERSON_TOKENS)

\* D4BlameLanguageAgent._apply_guards dropping the unsupported negative
\* items instead of flagging them
D4GuardsDropItems(r) ==
    IF r.evidence = << >> THEN Uncertain(r)
    ELSE LET kept == SelectSeq(r.evidence, LAMBDA e : ~D4Unsupported(e))
             r1 == [r EXCEPT !.evidence = kept]
         IN  IF ~RatingConsistent(r) THEN Uncertain(r1) ELSE r1

\* D4BlameLanguageAgent._apply_guards
D4ApplyGuards(r) ==
    IF r.evidence = << >> THEN Uncertain(r)
    ELSE IF \E i \in 1..Len(r.evidence) : D4Unsupported(r.evidence[i])
         THEN Uncertain(r)
    ELSE IF ~RatingConsistent(r) THEN Uncertain(r)
    ELSE r

\* D5: the loop body escalating a positive item only for reassurance
\* without a contemporaneous-reasoning cue
D5EscalatesReassuranceOnly(e) ==
    LET q == Lower(e.quote)
    IN  \/ /\ e.evidence_type = "negative"
           /\ \/ AnyCue(q, COUNTERFACTUAL_CUES)
              \/ ~AnyCue(q, HINDSIGHT_CUES)
        \/ /\ e.evidence_type = "positive"
           /\ AnyCue(q, REASSURANCE_CUES)
           /\ ~AnyCue(q, LOCAL_RATIONALE_CUES)

\* D5: the body of the loop over the evidence sets the flag for this item
D5Escalates(e) ==
    LET q == Lower(e.quote)
        local == AnyCue(q, LOCAL_RATIONALE_CUES)
    IN  \/ /\ e.evidence_type = "negative"
           /\ \/ AnyCue(q, COUNTERFACTUAL_CUES)
              \/ ~AnyCue(q, HINDSIGHT_CUES)
        \/ /\ e.evidence_type = "positive"
           /\ \/ (AnyCue(q, REASSURANCE_CUES) /\ ~local)
              \/ ~local
        \/ ~local       \* the last check of the loop body, whatever the type

\* D5LocalRationalityAgent._apply_guards
D5ApplyGuards(r) ==
    IF r.evidence = << >> THEN Uncertain(r)
    ELSE IF ~RatingConsistent(r) THEN Uncertain(r)
    ELSE IF \E i \in 1..Len(r.evidence) : D5Escalates(r.evidence[i])
         THEN Uncertain(r)
    ELSE r

\* the guard pass of judge a
Guard(a, r) ==
    CASE a = "D1" -> D1Guards(r)
      [] a = "D2" -> D2ApplyGuards(r)
      [] a = "D3" -> D3ApplyGuards(r)
      [] a = "D4" -> D4ApplyGuards(r)
      [] a = "D5" -> D5ApplyGuards(r)

-----------------------------------------------------------------------------
(* The meta-evaluator: laj_meta.py *)

\* Optional[str] None, told apart from every string
None == <<"[None]">>

\* the length of the run of digits of s that starts at index i
RECURSIVE DigitRun(_, _)
DigitRun(s, i) ==
    IF i <= Len(s) /\ s[i] \in Digits THEN 1 + DigitRun(s, i + 1) ELSE 0

\* _CHUNK_RE matched at index i of s: the index after the match, 0 for no
\* match. p, one to three digits, _, c or t, one to three digits (as many
\* as there are), ignoring case
ChunkMatchEnd(s, i) ==
    LET d1 == DigitRun(s, i + 1)
        m == i + 1 + d1         \* where the underscore must be
        d2 == DigitRun(s, m + 2)
    IN  IF /\ s[i] \in {"p", "P"}
           /\ d1 \in 1..3
           /\ m + 2 <= Len(s)
           /\ s[m] = "_"
           /\ s[m + 1] \in {"c", "C", "t", "T"}
           /\ d2 >= 1
        THEN m + 2 + Min(d2, 3)
        ELSE 0

\* _extract_chunk_id: the first match of _CHUNK_RE, or None
ExtractChunkId(evidence_id) ==
    LET hits == {i \in 1..Len(evidence_id) : ChunkMatchEnd(evidence_id, i) # 0}
    IN  IF hits = {} THEN None
        ELSE LET i == CHOOSE i \in hits : \A k \in hits : i <= k
             IN  SubSeq(evidence_id, i, ChunkMatchEnd(evidence_id, i) - 1)

\* the text of the first item of items whose id (field idOf) equals
\* chunk_id ignoring case, or None
RECURSIVE FirstWithId(_, _, _, _)
FirstWithId(items, key, chunk_id, k) ==
    IF k > Len(items) THEN None
    ELSE IF Lower(items[k][key]) = Lower(chunk_id) THEN items[k].text
    ELSE FirstWithId(items, key, chunk_id, k + 1)

\* _resolve_block that compares the ids as written, letter case and all
ResolveCaseSensitive(p, evidence_id) ==
    LET eid == Strip(evidence_id)
        chunk_id == ExtractChunkId(eid)
        texts == {i \in 1..Len(p.text_chunks) : p.text_chunks[i].chunk_id = chunk_id}
        tables == {i \in 1..Len(p.tables) : p.tables[i].table_id = chunk_id}
    IN  IF eid = << >> THEN None
        ELSE IF chunk_id = None THEN None
        ELSE IF Contains(Lower(chunk_id), <<"_", "c">>) /\ texts # {}
             THEN p.text_chunks[CHOOSE i \in texts : \A j \in texts : i <= j].text
        ELSE IF Contains(Lower(chunk_id), <<"_", "t">>) /\ tables # {}
             THEN p.tables[CHOOSE i \in tables : \A j \in tables : i <= j].text
        ELSE None

\* _resolve_block that looks a citation up among the text chunks only
ResolveTextOnly(p, evidence_id) ==
    LET eid == Strip(evidence_id)
        chunk_id == ExtractChunkId(eid)
    IN  IF eid = << >> \/ chunk_id = None THEN None
        ELSE FirstWithId(p.text_chunks, "chunk_id", chunk_id, 1)

\* _resolve_block
ResolveBlock(p, evidence_id) ==
    LET eid == Strip(evidence_id)
        chunk_id == ExtractChunkId(eid)
        asText == IF Contains(Lower(chunk_id), <<"_", "c">>)
                  THEN FirstWithId(p.text_chunks, "chunk_id", chunk_id, 1)
                  ELSE None
        asTable == IF Contains(Lower(chunk_id), <<"_", "t">>)
                   THEN FirstWithId(p.tables, "table_id", chunk_id, 1)
                   ELSE None
    IN  IF eid = << >> THEN None
        ELSE IF chunk_id = None THEN None
        ELSE IF asText # None THEN asText
        ELSE asTable

NoFlags ==
    [missing_evidence |-> FALSE, invalid_evidence_id |-> FALSE,
     quote_mismatch |-> FALSE]

\* f"[{eid}]\n{block}"
ContextBlock(eid, blk) == <<"[">> \o eid \o <<"]", "\n">> \o blk

\* the loop body of _build_evidence_context, putting a new block ahead of
\* those it has
ContextStepPrepend(eid, q, blk, strict, st) ==
    IF eid = << >> \/ blk = None
    THEN [st EXCEPT !.flags.invalid_evidence_id = TRUE]
    ELSE [flags |-> [st.flags EXCEPT !.quote_mismatch =
                        @ \/ (strict /\ q # << >> /\ ~QuoteMatchesBlock(q, blk))],
          blocks |-> IF eid \in st.seen_ids THEN st.blocks
                     ELSE <<ContextBlock(eid, blk)>> \o st.blocks,
          seen_ids |-> st.seen_ids \cup {eid}]

\* one pass of the loop body of _build_evidence_context on the state
\* st = [flags, blocks, seen_ids] built so far, for the stripped id eid and
\* quote q of an item and the block blk its id resolves to
ContextStep(eid, q, blk, strict, st) ==
    IF eid = << >> \/ blk = None
    THEN [st EXCEPT !.flags.invalid_evidence_id = TRUE]
    ELSE [flags |-> [st.flags EXCEPT !.quote_mismatch =
                        @ \/ (strict /\ q # << >> /\ ~QuoteMatchesBlock(q, blk))],
          blocks |-> IF eid \in st.seen_ids THEN st.blocks
                     ELSE Append(st.blocks, ContextBlock(eid, blk)),
          seen_ids |-> st.seen_ids \cup {eid}]

\* the loop of _build_evidence_context, ended by the first item whose id is
\* empty or does not resolve
RECURSIVE ContextLoopStopsAtFailure(_, _, _, _, _)
ContextLoopStopsAtFailure(p, evidence, strict, k, st) ==
    IF k > Len(evidence) \/ st.flags.invalid_evidence_id THEN st
    ELSE ContextLoopStopsAtFailure(p, evidence, strict, k + 1,
                     ContextStep(Strip(evidence[k].id), Strip(evidence[k].quote),
                                 ResolveBlock(p, Strip(evidence[k].id)), strict, st))

\* the loop of _build_evidence_context over evidence[k..]
RECURSIVE ContextLoop(_, _, _, _, _)
ContextLoop(p, evidence, strict, k, st) ==
    IF k > Len(evidence) THEN st
    ELSE ContextLoop(p, evidence, strict, k + 1,
                     ContextStep(Strip(evidence[k].id), Strip(evidence[k].quote),
                                 ResolveBlock(p, Strip(evidence[k].id)), strict, st))

\* "\n\n".join(blocks)
RECURSIVE JoinBlocks(_)
JoinBlocks(bs) ==
    IF bs = << >> THEN << >>
    ELSE IF Len(bs) = 1 THEN bs[1]
    ELSE bs[1] \o <<"\n", "\n">> \o JoinBlocks(Tail(bs))

\* agent_output.get("evidence", []) or []
EvidenceOf(ao) == IF "evidence" \in DOMAIN ao THEN ao.evidence ELSE << >>

\* _build_evidence_context without the return for an empty evidence list
BuildContextNoEarlyReturn(p, ao, strict) ==
    LET st == ContextLoop(p, EvidenceOf(ao), strict, 1,
                          [flags |-> NoFlags, blocks |-> << >>, seen_ids |-> {}])
    IN  [flags |-> st.flags, blocks |-> st.blocks,
         context |-> JoinBlocks(st.blocks)]

\* _build_evidence_context that checks the quotes of a judge only when the
\* judge reported itself uncertain
BuildContextTrustingJudge(p, ao, strict) ==
    IF EvidenceOf(ao) = << >>
    THEN [flags |-> [NoFlags EXCEPT !.missing_evidence = TRUE],
          blocks |-> << >>, context |-> << >>]
    ELSE LET st == ContextLoop(p, EvidenceOf(ao), strict /\ ao.uncertainty, 1,
                               [flags |-> NoFlags, blocks |-> << >>, seen_ids |-> {}])
         IN  [flags |-> st.flags, blocks |-> st.blocks,
              context |-> JoinBlocks(st.blocks)]

\* _build_evidence_context: [flags, blocks, context]
BuildEvidenceContext(p, ao, strict) ==
    IF EvidenceOf(ao) = << >>
    THEN [flags |-> [NoFlags EXCEPT !.missing_evidence = TRUE],
          blocks |-> << >>, context |-> << >>]
    ELSE LET st == ContextLoop(p, EvidenceOf(ao), strict, 1,
                               [flags |-> NoFlags, blocks |-> << >>, seen_ids |-> {}])
         IN  [flags |-> st.flags, blocks |-> st.blocks,
              context |-> JoinBlocks(st.blocks)]

\* LaJMetaEvaluator.METRICS, the ids
Required == <<"M1", "M2", "M3", "M4", "M5", "M6">>

ClampNote ==
    "No programmatic grounding issues detected; treat as potential overreach rather than hallucination."

\* m_by_id of _apply_guards: for every id in the list, its last entry
MById(metrics) ==
    LET ids == {metrics[i].metric_id : i \in 1..Len(metrics)}
        last(id) == CHOOSE i \in 1..Len(metrics) :
                        /\ metrics[i].metric_id = id
                        /\ \A j \in (i + 1)..Len(metrics) : metrics[j].metric_id # id
    IN  [id \in ids |-> metrics[last(id)]]

\* the KeyError of m_by_id[mid]
KeyError == [error |-> "KeyError"]

\* _apply_guards that hands the response's metric list on as it came
GuardsKeepList(res, fl) ==
    LET severe == fl.invalid_evidence_id \/ fl.quote_mismatch
    IN  IF \E i \in 1..Len(Required) : Required[i] \notin DOMAIN MById(res.metrics)
        THEN KeyError
        ELSE [overall |-> IF severe /\ res.overall = "PASS" THEN "WARN" ELSE res.overall,
              metrics |-> res.metrics]

\* _apply_guards without the cap of the overall score
GuardsNoCap(res, fl) ==
    LET m == MById(res.metrics)
    IN  IF \E i \in 1..Len(Required) : Required[i] \notin DOMAIN m
        THEN KeyError
        ELSE [overall |-> res.overall,
              metrics |-> [i \in 1..Len(Required) |-> m[Required[i]]]]

\* _apply_guards without the floor of M2 and M6 for missing evidence
GuardsNoEvidenceFloor(res, fl) ==
    LET m0 == MById(res.metrics)
        severe == fl.invalid_evidence_id \/ fl.quote_mismatch
        m1 == IF ~severe /\ "M6" \in DOMAIN m0 /\ m0["M6"].score = "FAIL"
              THEN [m0 EXCEPT !["M6"] = [@ EXCEPT !.score = "WARN", !.notes = ClampNote]]
              ELSE m0
    IN  IF \E i \in 1..Len(Required) : Required[i] \notin DOMAIN m0
        THEN KeyError
        ELSE [overall |-> IF severe /\ res.overall = "PASS" THEN "WARN" ELSE res.overall,
              metrics |-> [i \in 1..Len(Required) |-> m1[Required[i]]]]

\* _apply_guards that fills a missing metric in with an entry of its own
GuardsBackfill(res, fl) ==
    LET given == MById(res.metrics)
        m0 == [id \in DOMAIN given \cup {Required[i] : i \in 1..Len(Required)} |->
                    IF id \in DOMAIN given THEN given[id]
                    ELSE [metric_id |-> id, score |-> "WARN", notes |-> "missing"]]
        severe == fl.invalid_evidence_id \/ fl.quote_mismatch
        m1 == IF ~severe /\ m0["M6"].score = "FAIL"
              THEN [m0 EXCEPT !["M6"] = [@ EXCEPT !.score = "WARN", !.notes = ClampNote]]
              ELSE m0
        m2 == IF fl.missing_evidence
              THEN [id \in DOMAIN m1 |->
                        IF id \in {"M2", "M6"} /\ m1[id].score = "PASS"
                        THEN [m1[id] EXCEPT !.score = "WARN"]
                        ELSE m1[id]]
              ELSE m1
    IN  [overall |-> IF severe /\ res.overall = "PASS" THEN "WARN" ELSE res.overall,
         metrics |-> [i \in 1..Len(Required) |-> m2[Required[i]]]]

\* _apply_guards that clamps a FAIL of M6 whatever the flags
GuardsClampAlways(res, fl) ==
    LET m0 == MById(res.metrics)
        severe == fl.invalid_evidence_id \/ fl.quote_mismatch
        m1 == IF "M6" \in DOMAIN m0 /\ m0["M6"].score = "FAIL"
              THEN [m0 EXCEPT !["M6"] = [@ EXCEPT !.score = "WARN", !.notes = ClampNote]]
              ELSE m0
        m2 == IF fl.missing_evidence
              THEN [id \in DOMAIN m1 |->
                        IF id \in {"M2", "M6"} /\ m1[id].score = "PASS"
                        THEN [m1[id] EXCEPT !.score = "WARN"]
                        ELSE m1[id]]
              ELSE m1
    IN  IF \E i \in 1..Len(Required) : Required[i] \notin DOMAIN m0
        THEN KeyError
        ELSE [overall |-> IF severe /\ res.overall = "PASS" THEN "WARN" ELSE res.overall,
              metrics |-> [i \in 1..Len(Required) |-> m2[Required[i]]]]

\* _apply_guards that caps the overall score for missing evidence as well
GuardsCapOnMissing(res, fl) ==
    LET m0 == MById(res.metrics)
        severe == fl.invalid_evidence_id \/ fl.quote_mismatch
        m1 == IF ~severe /\ "M6" \in DOMAIN m0 /\ m0["M6"].score = "FAIL"
              THEN [m0 EXCEPT !["M6"] = [@ EXCEPT !.score = "WARN", !.notes = ClampNote]]
              ELSE m0
        m2 == IF fl.missing_evidence
              THEN [id \in DOMAIN m1 |->
                        IF id \in {"M2", "M6"} /\ m1[id].score = "PASS"
                        THEN [m1[id] EXCEPT !.score = "WARN"]
                        ELSE m1[id]]
              ELSE m1
    IN  IF \E i \in 1..Len(Required) : Required[i] \notin DOMAIN m0
        THEN KeyError
        ELSE [overall |-> IF (severe \/ fl.missing_evidence) /\ res.overall = "PASS"
                          THEN "WARN" ELSE res.overall,
              metrics |-> [i \in 1..Len(Required) |-> m2[Required[i]]]]

\* LaJMetaEvaluator._apply_guards: the guarded result, or KeyError
MetaGuards(res, fl) ==
    LET m0 == MById(res.metrics)
        severe == fl.invalid_evidence_id \/ fl.quote_mismatch
        m1 == IF ~severe /\ "M6" \in DOMAIN m0 /\ m0["M6"].score = "FAIL"
              THEN [m0 EXCEPT !["M6"] = [@ EXCEPT !.score = "WARN", !.notes = ClampNote]]
              ELSE m0
        m2 == IF fl.missing_evidence
              THEN [id \in DOMAIN m1 |->
                        IF id \in {"M2", "M6"} /\ m1[id].score = "PASS"
                        THEN [m1[id] EXCEPT !.score = "WARN"]
                        ELSE m1[id]]
              ELSE m1
    IN  IF \E i \in 1..Len(Required) : Required[i] \notin DOMAIN m0
        THEN KeyError
        ELSE [overall |-> IF severe /\ res.overall = "PASS" THEN "WARN" ELSE res.overall,
              metrics |-> [i \in 1..Len(Required) |-> m2[Required[i]]]]

-----------------------------------------------------------------------------
(* Response parsing: _parse_response of laj_meta.py and agents/*.py *)
(*                                                                         *)
(* The text of a response is a sequence of lexical tokens:                 *)
(*   {  }  [  ]  ,   the structural characters of JSON                     *)
(*   m               a member "key": value with a scalar value             *)
(*   k               a key and its colon; a value must follow              *)
(*   1               a scalar value (a number, a string, true, null)       *)
(*   space           whitespace                                            *)
(*   x               prose: characters that start no JSON value            *)

\* the index after the JSON value of s that starts at i, 0 if none starts
\* there; MembersEnd and ItemsEnd are at position i inside an object or an
\* array, first telling that no member or item has been read yet
RECURSIVE ValueEnd(_, _), MembersEnd(_, _, _), ItemsEnd(_, _, _)
ValueEnd(s, i) ==
    IF i > Len(s) THEN 0
    ELSE IF s[i] = "1" THEN i + 1
    ELSE IF s[i] = "{" THEN MembersEnd(s, SkipSpace(s, i + 1), TRUE)
    ELSE IF s[i] = "[" THEN ItemsEnd(s, SkipSpace(s, i + 1), TRUE)
    ELSE 0

\* after a member or an item that ends before index e (0: there was none):
\* the closing character ends the container, a comma asks for another
AfterElement(s, e, close) ==
    IF e = 0 \/ SkipSpace(s, e) > Len(s) THEN [end |-> 0, more |-> FALSE]
    ELSE IF s[SkipSpace(s, e)] = close
         THEN [end |-> SkipSpace(s, e) + 1, more |-> FALSE]
    ELSE IF s[SkipSpace(s, e)] = ","
         THEN [end |-> SkipSpace(s, SkipSpace(s, e) + 1), more |-> TRUE]
    ELSE [end |-> 0, more |-> FALSE]

MembersEnd(s, i, first) ==
    IF i > Len(s) THEN 0
    ELSE IF first /\ s[i] = "}" THEN i + 1
    ELSE LET e == IF s[i] = "m" THEN i + 1
                  ELSE IF s[i] = "k" THEN ValueEnd(s, SkipSpace(s, i + 1))
                  ELSE 0
             a == AfterElement(s, e, "}")
         IN  IF a.more THEN MembersEnd(s, a.end, FALSE) ELSE a.end

ItemsEnd(s, i, first) ==
    IF i > Len(s) THEN 0
    ELSE IF first /\ s[i] = "]" THEN i + 1
    ELSE LET a == AfterElement(s, ValueEnd(s, i), "]")
         IN  IF a.more THEN ItemsEnd(s, a.end, FALSE) ELSE a.end

\* json.loads(s): "dict" for an object, "other" for any other value,
\* "error" where it raises JSONDecodeError
JsonLoads(s) ==
    LET i == SkipSpace(s, 1)
        e == ValueEnd(s, i)
    IN  IF e = 0 \/ SkipSpace(s, e) # Len(s) + 1 THEN "error"
        ELSE IF s[i] = "{" THEN "dict"
        ELSE "other"

\* text.find("{") and text.rfind("}") as 1-based indices, 0 for -1
Find(s, c) ==
    IF \E i \in 1..Len(s) : s[i] = c
    THEN CHOOSE i \in 1..Len(s) : s[i] = c /\ \A j \in 1..(i - 1) : s[j] # c
    ELSE 0

RFind(s, c) ==
    IF \E i \in 1..Len(s) : s[i] = c
    THEN CHOOSE i \in 1..Len(s) : s[i] = c /\ \A j \in (i + 1)..Len(s) : s[j] # c
    ELSE 0

\* what _parse_response does with the object it loaded from the text obj:
\* _normalise and _normalise_obj read keys of it and keep nothing else
Normalise(obj, stage) == [ok |-> TRUE, obj |-> obj, stage |-> stage]

\* the error _parse_response raises
Raises(err) == [ok |-> FALSE, error |-> err]

\* _parse_response that answers an unusable text with an empty object
ParseOrDefault(text) ==
    LET t == Strip(text)
        start == Find(t, "{")
        end == RFind(t, "}")
    IN  IF JsonLoads(t) = "dict" THEN Normalise(t, 1)
        ELSE IF start # 0 /\ end # 0 /\ end > start
                /\ JsonLoads(SubSeq(t, start, end)) = "dict"
             THEN Normalise(SubSeq(t, start, end), 2)
        ELSE Normalise(<<"{", "}">>, 2)

\* _parse_response: the fast path, then the recovery of the text from the
\* first { to the last }
ParseResponse(text) ==
    LET t == Strip(text)
        start == Find(t, "{")
        end == RFind(t, "}")
    IN  IF JsonLoads(t) = "dict" THEN Normalise(t, 1)
        ELSE IF start # 0 /\ end # 0 /\ end > start
             THEN IF JsonLoads(SubSeq(t, start, end)) = "error"
                  THEN Raises("JSONDecodeError")
                  ELSE Normalise(SubSeq(t, start, end), 2)
        ELSE Raises("ValueError")

-----------------------------------------------------------------------------
(* SpecMatch: the matcher applied to drawn inputs *)

MaxRawQuote == 2        \* characters of a raw quote
MaxRawBlock == 4        \* characters of a raw block
MaxBlockToks == 5       \* words of a worded block, its filler apart

\* every string over the characters S of at most n characters
StringsOver(S, n) == UNION {[1..k -> S] : k \in 0..n}

\* small alphabets, each exercising some steps of _canon
RawThemes ==
    { {"a", "-", "\n"},         \* end-of-line hyphenation
      {"A", ENDASH, " "},       \* case, a dash made ASCII, whitespace
      {"a", EACUTE, "."},       \* punctuation, a letter outside a-z
      {"b", SHY, RSQ} }         \* soft hyphen, curly quote

RawInputs ==
    UNION { StringsOver(T, MaxRawQuote) \X StringsOver(T, MaxRawBlock) :
            T \in RawThemes }

\* the words joined by single spaces
RECURSIVE JoinWords(_)
JoinWords(ws) ==
    IF ws = << >> THEN << >>
    ELSE IF Len(ws) = 1 THEN ws[1]
    ELSE ws[1] \o <<" ">> \o JoinWords(Tail(ws))

BlockWords == { <<"a">>, <<"b">> }
FabricatedWord == <<"x">>
FillerWord == <<"c">>

\* a block of the words bw with Slack + 1 other words after its second
\* word: a window of a quote at the fuzzy threshold fits in it
PaddedBlock(bw) ==
    SubSeq(bw, 1, 2) \o [i \in 1..(Slack + 1) |-> FillerWord] \o SubSeq(bw, 3, Len(bw))

\* a quote of n words (n at the fuzzy threshold and one below it) of the
\* block's vocabulary, at most one of them
\* replaced by a word no block holds
WordedQuotes(n) ==
    LET base == [1..n -> BlockWords]
    IN  base \cup { [w EXCEPT ![i] = FabricatedWord] : w \in base, i \in 1..n }

WordedInputs ==
    { <<JoinWords(qw), JoinWords(PaddedBlock(bw))>> :
        qw \in UNION { WordedQuotes(n) : n \in (MinFuzzyTokens - 1)..MinFuzzyTokens },
        bw \in [1..MaxBlockToks -> BlockWords] }

MatchInputs == RawInputs \cup WordedInputs

GuardIdle ==
    /\ gpc = "idle" /\ agent = "none" /\ parsed = << >>
    /\ result = << >> /\ output = << >>

MetaIdle ==
    /\ xpc = "idle" /\ pack = << >> /\ agent_output = << >>
    /\ strict_quote_check = FALSE /\ flags = << >> /\ blocks = << >>
    /\ evidence_context = << >> /\ raw = << >> /\ laj_parsed = << >>
    /\ verdict = << >> /\ raised = "none"

ParseIdle ==
    /\ ppc = "idle" /\ judge = "none" /\ response = << >>
    /\ recovered = << >> /\ failure = "none" /\ returned = << >>

FanIdle ==
    /\ store = << >> /\ outputs = << >> /\ frames = << >> /\ results = << >>

MatchInit ==
    /\ mpc = "input"
    /\ \E inp \in MatchInputs : quote = inp[1] /\ block = inp[2]
    /\ matched = FALSE
    /\ GuardIdle
    /\ MetaIdle
    /\ ParseIdle
    /\ FanIdle

\* a call quote_matches_block(quote, block)
Match ==
    /\ mpc = "input"
    /\ matched' = QuoteMatchesBlock(quote, block)
    /\ mpc' = "done"
    /\ UNCHANGED <<quote, block, guardVars, metaVars, parseVars, fanVars>>

MatchNext == Match

SpecMatch == MatchInit /\ [][MatchNext]_vars

-----------------------------------------------------------------------------
(* Properties of the matcher, under SpecMatch *)

\* C1: a quote whose canonical form is non-empty and a substring of the
\* block's canonical form is matched.
C1_CanonicalSubstringMatches ==
    LET q1 == Canon(quote)
        b1 == Canon(block)
    IN  (mpc = "done" /\ q1 # << >> /\ Contains(b1, q1)) => matched = TRUE

\* C1 witness: a match that only the normalisation makes (the raw quote is
\* no substring of the raw block).
C1_Witness ==
    /\ mpc = "done" /\ matched = TRUE
    /\ Canon(quote) # << >> /\ Contains(Canon(block), Canon(quote))
    /\ ~Contains(block, quote)

\* the quote tokens that no block token equals, as 0-based positions
AbsentPositions(q, b) ==
    LET qt == Tokens(q)
        bt == Tokens(b)
    IN  {k \in 0..(Len(qt) - 1) : \A m \in 1..Len(bt) : bt[m] # qt[k + 1]}

\* a fabricated clause: some quote token is absent from the block, and
\* neither containment test holds
Fabricated(q, b) ==
    /\ AbsentPositions(q, b) # {}
    /\ ~CanonContained(q, b)
    /\ ~CompactContained(q, b)

\* at least 80% of the quote's tokens occur somewhere in the block
MostTokensPresent(q, b) ==
    LET n == Len(Tokens(q))
    IN  (n - Cardinality(AbsentPositions(q, b))) * 100 >= MinRatioPct * n

\* C2 as stated: every quote with a fabricated clause is rejected.
C2_Original ==
    (mpc = "done" /\ Fabricated(quote, block)) => matched = FALSE

\* C2 amended: a quote with a fabricated clause is rejected when it has
\* fewer than 6 tokens or when fewer than 80% of its tokens precede its
\* first fabricated token.
C2_FabricatedEarlyRejected ==
    LET n == Len(Tokens(quote))
        absent == AbsentPositions(quote, block)
        first == CHOOSE k \in absent : \A k2 \in absent : k <= k2
    IN  (/\ mpc = "done"
         /\ Fabricated(quote, block)
         /\ (n < MinFuzzyTokens \/ first * 100 < MinRatioPct * n))
            => matched = FALSE

\* C2 witness: a rejected quote of 6 or more tokens, 80% of which occur in
\* the block, with a fabricated token among its first 80%.
C2_Witness ==
    /\ mpc = "done" /\ matched = FALSE
    /\ Len(Tokens(quote)) >= MinFuzzyTokens
    /\ Fabricated(quote, block)
    /\ MostTokensPresent(quote, block)
    /\ LET n == Len(Tokens(quote))
       IN  \E k \in AbsentPositions(quote, block) : k * 100 < MinRatioPct * n

\* C3: for a quote of fewer than 6 tokens the result is exactly canonical
\* or compact containment.
C3_ShortQuoteNoFuzzy ==
    (mpc = "done" /\ Len(Tokens(quote)) < 6)
        => (matched <=> (CanonContained(quote, block) \/ CompactContained(quote, block)))

\* C3 witness: a rejected 5-token quote of which 80% of the tokens occur in
\* order in the block.
C3_Witness ==
    /\ mpc = "done" /\ matched = FALSE
    /\ Len(Tokens(quote)) = 5
    /\ CountHits(Tokens(block), Tokens(quote), 1, 0, 0) * 100 >= MinRatioPct * 5

-----------------------------------------------------------------------------
(* SpecGuard: one run of a dimension judge, from the parsed response on *)

MaxEvidence == 2        \* evidence items of a verdict

Agents == {"D1", "D2", "D3", "D4", "D5"}
Ratings == {"GOOD", "SOME", "LITTLE", "NONE"}

EvidenceId == <<"T","e","x","t"," ","p","0","1","_","c","0","1">>

QuoteNoCue == <<"n","o"," ","b","e","d">>

\* the quotes a judge's response may cite: the guards of D1..D3 read no
\* quote; those of D4 and D5 look for their cues in it
GuardQuotes(a) ==
    CASE a = "D4" ->
            { << >>, QuoteNoCue,
              <<"S","t","a","f","f"," ","f","a","i","l","e","d">>,
              <<"t","h","e"," ","d","e","l","a","y">> }
      [] a = "D5" ->
            { << >>, QuoteNoCue,
              <<"G","i","v","e","n">>,
              <<"F","o","r","g","i","v","e","n">>,
              <<"t","i","m","e","l","y">>,
              <<"d","i","d"," ","n","o","t">>,
              <<"d","i","d"," ","n","o","t",","," ","g","i","v","e","n">>,
              <<"n","o"," ","c","e","r","t","a","i","n","t","y">> }
      [] OTHER -> { QuoteNoCue }

EvidenceItems(a) ==
    { [id |-> EvidenceId, quote |-> q, evidence_type |-> t] :
        q \in GuardQuotes(a), t \in {"positive", "negative"} }
    \cup { [id |-> EvidenceId, quote |-> QuoteNoCue, evidence_type |-> "other"] }

ParsedVerdicts(a) ==
    { [rating |-> rt, rationale |-> "rationale", evidence |-> ev, uncertainty |-> u] :
        rt \in Ratings,
        ev \in UNION { [1..n -> EvidenceItems(a)] : n \in 0..MaxEvidence },
        u \in BOOLEAN }

MatchIdle ==
    /\ mpc = "idle" /\ quote = << >> /\ block = << >> /\ matched = FALSE

GuardInit ==
    /\ gpc = "parsed"
    /\ agent \in Agents
    /\ parsed \in ParsedVerdicts(agent)
    /\ result = << >>
    /\ output = << >>
    /\ MatchIdle
    /\ MetaIdle
    /\ ParseIdle
    /\ FanIdle

\* parsed = self._apply_guards(parsed), or the guard lines of D1's run
ApplyGuards ==
    /\ gpc = "parsed"
    /\ result' = Guard(agent, parsed)
    /\ gpc' = "guarded"
    /\ UNCHANGED <<agent, parsed, output, matchVars, metaVars, parseVars, fanVars>>

\* the dict run() returns
Return ==
    /\ gpc = "guarded"
    /\ output' = [agent_id |-> agent,
                  rating |-> result.rating,
                  rationale |-> result.rationale,
                  evidence |-> result.evidence,
                  uncertainty |-> result.uncertainty]
    /\ gpc' = "returned"
    /\ UNCHANGED <<agent, parsed, result, matchVars, metaVars, parseVars, fanVars>>

GuardNext == ApplyGuards \/ Return

SpecGuard == GuardInit /\ [][GuardNext]_vars

-----------------------------------------------------------------------------
(* Properties of the guard pass, under SpecGuard *)

Guarded == gpc \in {"guarded", "returned"}

\* C4 (R1): for every judge and every rating of the enum, a parsed verdict
\* with no evidence is uncertain after the guard pass.
C4_EmptyEvidenceUncertain ==
    (/\ Guarded
     /\ parsed.rating \in {"GOOD", "SOME", "LITTLE"}
     /\ parsed.evidence = << >>)
        => result.uncertainty = TRUE

\* C4 witness: a verdict rated SOME that reported no evidence and no
\* uncertainty has been through the guard.
C4_Witness ==
    /\ Guarded
    /\ parsed.rating = "SOME" /\ parsed.evidence = << >>
    /\ parsed.uncertainty = FALSE
    /\ result.uncertainty = TRUE

\* C5 (R2/R3) as stated: for every judge, GOOD without a positive item and
\* LITTLE without a negative item are uncertain after the guard pass.
C5_Original ==
    (/\ Guarded
     /\ \/ (parsed.rating = "GOOD" /\ ~HasType(parsed.evidence, "positive"))
        \/ (parsed.rating = "LITTLE" /\ ~HasType(parsed.evidence, "negative")))
        => result.uncertainty = TRUE

\* C6: the guard pass is idempotent: guarding a guarded verdict changes
\* nothing.
C6_GuardIdempotent ==
    Guarded => Guard(agent, result) = result

\* C6 witness: a verdict the guard pass changed.
C6_Witness ==
    /\ Guarded
    /\ result # parsed
    /\ parsed.evidence # << >>
    /\ Guard(agent, result) = result

\* C7: the guard pass never lowers the uncertainty and leaves the rating,
\* the rationale and the evidence items as they were.
C7_OnlyEscalates ==
    Guarded =>
        /\ parsed.uncertainty => result.uncertainty
        /\ result.rating = parsed.rating
        /\ result.rationale = parsed.rationale
        /\ result.evidence = parsed.evidence

\* C7 witness: a verdict that came in uncertain, with evidence on which no
\* rule of its judge fires, and left uncertain.
C7_Witness ==
    /\ Guarded
    /\ parsed.uncertainty = TRUE
    /\ parsed.evidence # << >>
    /\ Guard(agent, [parsed EXCEPT !.uncertainty = FALSE]).uncertainty = FALSE
    /\ result.uncertainty = TRUE

-----------------------------------------------------------------------------
(* SpecMeta: one run of LaJMetaEvaluator.run *)

MaxCited == 2           \* evidence items of the agent output

TextOfChunk == <<"T","h","e"," ","b","e","d"," ","w","a","s","\n","f","u","l","l",".">>
FallbackOfTable == <<"|"," ","B","e","d"," ","|"," ","2"," ","|">>

ChunkP03 == [chunk_id |-> <<"p","0","3","_","c","0","1">>, text |-> TextOfChunk]
TableP02 == [table_id |-> <<"p","0","2","_","t","0","1">>, text |-> FallbackOfTable]

\* the evidence stores, ids as pack.py and pdf_tables.py write them: one
\* with a text chunk and a table; one whose table p02_t01 has no fallback
\* text (text_fallback or "") and precedes a second table
Packs ==
    { [text_chunks |-> << ChunkP03 >>, tables |-> << TableP02 >>],
      [text_chunks |-> << ChunkP03 >>,
       tables |-> << [TableP02 EXCEPT !.text = << >>],
                     [table_id |-> <<"p","0","9","_","t","0","1">>, text |-> FallbackOfTable] >>] }

Cite(id, q) == [id |-> id, quote |-> q, evidence_type |-> "positive"]

\* what a judge may cite
CitedItems ==
    { Cite(<<"T","a","b","l","e"," ","p","0","2","_","t","0","1">>, <<"b","e","d"," ","2">>),       \* a table, quote in it
      Cite(<<"T","a","b","l","e"," ","p","0","9","_","t","0","1">>, <<"b","e","d"," ","2">>),       \* no such table
      Cite(<<"T","e","x","t"," ","p","0","3","_","c","0","1">>, <<"n","o"," ","b","e","d">>),       \* a chunk, quote not in it
      Cite(<<"p","0","3","_","c","0","1"," ","p","0","2","_","t","0","1">>, << >>),  \* the chunk again, then a table id; no quote
      Cite(<<"T","E","X","T"," ","P","0","3","_","C","0","1"," ">>, <<"w","a","s"," ","f","u","l","l">>),    \* the chunk in capitals
      Cite(<< >>, <<"b","e","d"," ","2">>),                                   \* no id
      Cite(<<"p","a","g","e"," ","3">>, << >>) }                                 \* no block id in the id

\* what a judge reports of itself: rating, rationale, uncertainty
SelfReports ==
    { [rating |-> "GOOD", rationale |-> "no blame found", uncertainty |-> FALSE],
      [rating |-> "LITTLE", rationale |-> "blame throughout", uncertainty |-> TRUE] }

\* the output of a judge: with up to MaxCited evidence items, or without the
\* evidence key
AgentOutputs ==
    { [agent_id |-> "D4", dimension |-> "Blame language avoided",
       rating |-> sr.rating, rationale |-> sr.rationale,
       evidence |-> ev, uncertainty |-> sr.uncertainty] :
        sr \in SelfReports,
        ev \in UNION { [1..n -> CitedItems] : n \in 0..MaxCited } }
    \cup
    { [agent_id |-> "D4", dimension |-> "Blame language avoided",
       rating |-> sr.rating, rationale |-> sr.rationale,
       uncertainty |-> sr.uncertainty] : sr \in SelfReports }

Scores == {"PASS", "WARN", "FAIL"}

\* a score as a response may give it: one of the enum, or anything else
OffEnum == "N/A"
RawScores == Scores \cup {OffEnum}

Metric(id, sc) == [metric_id |-> id, score |-> sc, notes |-> "notes"]

\* the six metrics in the order asked for, M2 scored s2 and M6 scored s6
AsAsked(s2, s6) ==
    << Metric("M1", "PASS"), Metric("M2", s2), Metric("M3", "WARN"),
       Metric("M4", "PASS"), Metric("M5", "FAIL"), Metric("M6", s6) >>

Reverse(sq) == [i \in 1..Len(sq) |-> sq[Len(sq) + 1 - i]]

\* the metric lists a response may hold: as asked; reversed, with a
\* seventh metric; with M6 given twice (first FAIL, then s6); without M3;
\* with a score outside the enum
MetricLists ==
    { [AsAsked("PASS", "PASS") EXCEPT ![4].score = OffEnum] }
    \cup
    UNION { { AsAsked(s2, s6),
              Reverse(AsAsked(s2, s6)) \o << Metric("M7", "PASS") >>,
              SubSeq(AsAsked(s2, "FAIL"), 1, 6) \o << Metric("M6", s6) >>,
              SelectSeq(AsAsked(s2, s6), LAMBDA m : m.metric_id # "M3") } :
            s2 \in {"PASS", "FAIL"}, s6 \in Scores }

\* a response: text no JSON object can be recovered from, or an object
Responses ==
    { [json |-> FALSE] }
    \cup { [json |-> TRUE, overall |-> o, metrics |-> ms] :
            o \in RawScores, ms \in MetricLists }

MetaInit ==
    /\ xpc = "start"
    /\ pack \in Packs
    /\ agent_output \in AgentOutputs
    /\ strict_quote_check \in BOOLEAN
    /\ flags = << >> /\ blocks = << >> /\ evidence_context = << >>
    /\ raw = << >> /\ laj_parsed = << >> /\ verdict = << >>
    /\ raised = "none"
    /\ MatchIdle
    /\ GuardIdle
    /\ ParseIdle
    /\ FanIdle

\* flags, evidence_context = self._build_evidence_context(...)
BuildContext ==
    /\ xpc = "start"
    /\ \E built \in {BuildEvidenceContext(pack, agent_output, strict_quote_check)} :
           /\ flags' = built.flags
           /\ blocks' = built.blocks
           /\ evidence_context' = built.context
    /\ xpc' = "built"
    /\ UNCHANGED <<pack, agent_output, strict_quote_check, raw, laj_parsed,
                   verdict, raised, matchVars, guardVars,
                   parseVars, fanVars>>

\* raw = self.model.complete(prompt): any response
Complete ==
    /\ xpc = "built"
    /\ raw' \in Responses
    /\ xpc' = "called"
    /\ UNCHANGED <<pack, agent_output, strict_quote_check, flags, blocks,
                   evidence_context, laj_parsed, verdict, raised,
                   matchVars, guardVars,
                   parseVars, fanVars>>

\* the completion call raises and run calls again
CompleteFailsRetry ==
    /\ xpc = "built"
    /\ raised' = "completion"
    /\ xpc' = IF raised = "none" THEN "built" ELSE "failed"
    /\ UNCHANGED <<pack, agent_output, strict_quote_check, flags, blocks,
                   evidence_context, raw, laj_parsed, verdict,
                   matchVars, guardVars,
                   parseVars, fanVars>>

\* the completion call raises
CompleteFails ==
    /\ xpc = "built"
    /\ raised' = "completion"
    /\ xpc' = "failed"
    /\ UNCHANGED <<pack, agent_output, strict_quote_check, flags, blocks,
                   evidence_context, raw, laj_parsed, verdict,
                   matchVars, guardVars,
                   parseVars, fanVars>>

\* parsed = self._parse_response(raw), with _normalise
Parse ==
    /\ xpc = "called"
    /\ IF raw.json
       THEN /\ laj_parsed' = [overall |-> raw.overall, metrics |-> raw.metrics]
            /\ xpc' = "parsed"
            /\ UNCHANGED raised
       ELSE /\ raised' = "ValueError"
            /\ xpc' = "failed"
            /\ UNCHANGED laj_parsed
    /\ UNCHANGED <<pack, agent_output, strict_quote_check, flags, blocks,
                   evidence_context, raw, verdict, matchVars, guardVars,
                   parseVars, fanVars>>

\* parsed = self._apply_guards(parsed, flags=flags)
MetaApplyGuards ==
    /\ xpc = "parsed"
    /\ \E g \in {MetaGuards(laj_parsed, flags)} :
           IF g = KeyError
           THEN /\ raised' = "KeyError"
                /\ xpc' = "failed"
                /\ UNCHANGED laj_parsed
           ELSE /\ laj_parsed' = g
                /\ xpc' = "guarded"
                /\ UNCHANGED raised
    /\ UNCHANGED <<pack, agent_output, strict_quote_check, flags, blocks,
                   evidence_context, raw, verdict, matchVars, guardVars,
                   parseVars, fanVars>>

\* the dict run returns
MetaReturn ==
    /\ xpc = "guarded"
    /\ verdict' = [judge_id |-> "LaJ",
                   agent_id |-> agent_output.agent_id,
                   dimension |-> agent_output.dimension,
                   overall |-> laj_parsed.overall,
                   metrics |-> laj_parsed.metrics,
                   flags |-> flags,
                   raw_output |-> raw]
    /\ xpc' = "done"
    /\ UNCHANGED <<pack, agent_output, strict_quote_check, flags, blocks,
                   evidence_context, raw, laj_parsed, raised,
                   matchVars, guardVars,
                   parseVars, fanVars>>

MetaNext ==
    \/ BuildContext
    \/ Complete
    \/ CompleteFails
    \/ Parse
    \/ MetaApplyGuards
    \/ MetaReturn

SpecMeta == MetaInit /\ [][MetaNext]_vars

-----------------------------------------------------------------------------
(* Properties of the meta-evaluator, under SpecMeta *)

\* _build_evidence_context has just returned
Built == xpc = "built"

\* the positions of the store's tables whose id is cid, ignoring case
TablesHeld(p, cid) ==
    {i \in 1..Len(p.tables) : Lower(p.tables[i].table_id) = Lower(cid)}

\* the citation's embedded block id is a table id
CitesTable(eid) ==
    \E cid \in {ExtractChunkId(eid)} :
        cid # None /\ Contains(Lower(cid), <<"_", "t">>)

\* some block of the context is headed by the citation eid
HasBlockFor(bs, eid) ==
    \E i \in 1..Len(bs) :
        /\ Len(bs[i]) >= Len(eid) + 3
        /\ SubSeq(bs[i], 1, Len(eid) + 3) = <<"[">> \o eid \o <<"]", "\n">>

\* C8: a citation whose embedded id is a table id resolves to the fallback
\* text of the store's table of that id, and that text is in the evidence
\* context; when the store holds no such table, resolution fails,
\* invalid_evidence_id is set and no block for the citation is in the
\* evidence context.
C8_TableCitationResolved ==
    Built =>
        \A k \in 1..Len(EvidenceOf(agent_output)) :
            \E eid \in {Strip(EvidenceOf(agent_output)[k].id)} :
            \E held \in {TablesHeld(pack, ExtractChunkId(eid))} :
            \E blk \in {ResolveBlock(pack, eid)} :
                CitesTable(eid) =>
                    IF held # {}
                    THEN /\ \E i \in held :
                               /\ \A j \in held : i <= j
                               /\ blk = pack.tables[i].text
                         /\ \E i \in 1..Len(blocks) : blocks[i] = ContextBlock(eid, blk)
                    ELSE /\ blk = None
                         /\ flags.invalid_evidence_id = TRUE
                         /\ ~HasBlockFor(blocks, eid)

\* C8 witness: an agent output citing a table the store holds and a table
\* it does not; the context holds the block of the first alone.
C8_Witness ==
    /\ Built
    /\ Len(EvidenceOf(agent_output)) = 2
    /\ \A k \in 1..2 : CitesTable(Strip(EvidenceOf(agent_output)[k].id))
    /\ TablesHeld(pack, ExtractChunkId(EvidenceOf(agent_output)[1].id)) # {}
    /\ TablesHeld(pack, ExtractChunkId(EvidenceOf(agent_output)[2].id)) = {}
    /\ flags.invalid_evidence_id = TRUE
    /\ Len(blocks) = 1
    /\ blocks[1] = ContextBlock(EvidenceOf(agent_output)[1].id, FallbackOfTable)

\* the response's metric list holds every required id
HoldsRequired(ms) ==
    \A i \in 1..Len(Required) : \E j \in 1..Len(ms) : ms[j].metric_id = Required[i]

\* C9: a returned verdict has exactly six metric entries, with ids M1..M6
\* in that order, whatever the order, the extras and the duplicates of the
\* response; no verdict is returned only when the response lacks a
\* required id.
C9_SixMetricsInOrder ==
    /\ xpc = "done" =>
            /\ Len(verdict.metrics) = 6
            /\ \A i \in 1..6 : verdict.metrics[i].metric_id = Required[i]
    /\ raised = "KeyError" => ~HoldsRequired(raw.metrics)

\* C9 witness: a verdict returned for a response that listed the metrics
\* in reverse order and added a seventh.
C9_Witness ==
    /\ xpc = "done"
    /\ Len(raw.metrics) = 7
    /\ raw.metrics[1].metric_id = "M6"
    /\ raw.metrics[7].metric_id = "M7"
    /\ Len(verdict.metrics) = 6
    /\ verdict.metrics[1].metric_id = "M1"

\* C10: a returned verdict whose flags have quote_mismatch or
\* invalid_evidence_id set has an overall score other than PASS.
C10_SevereNeverPass ==
    (/\ xpc = "done"
     /\ (verdict.flags.quote_mismatch \/ verdict.flags.invalid_evidence_id))
        => verdict.overall # "PASS"

\* C10 witness: a quote mismatch alone, a response of PASS overall, and a
\* verdict of WARN.
C10_Witness ==
    /\ xpc = "done"
    /\ verdict.flags.quote_mismatch = TRUE
    /\ verdict.flags.invalid_evidence_id = FALSE
    /\ raw.overall = "PASS"
    /\ verdict.overall = "WARN"

\* the last entry of the metric list ms with the id mid: the one m_by_id
\* keeps
LastEntry(ms, mid) ==
    ms[CHOOSE i \in 1..Len(ms) :
            /\ ms[i].metric_id = mid
            /\ \A j \in (i + 1)..Len(ms) : ms[j].metric_id # mid]

\* C11: a returned verdict whose flags have missing_evidence set scores
\* neither M2 (evidence grounding) nor M6 (hallucination screening) PASS.
C11_NoEvidenceNeverPass ==
    (xpc = "done" /\ verdict.flags.missing_evidence)
        => \A i \in 1..Len(verdict.metrics) :
                verdict.metrics[i].metric_id \in {"M2", "M6"}
                    => verdict.metrics[i].score # "PASS"

\* C11 witness: no evidence, a response scoring M2 and M6 PASS, and a
\* verdict scoring both WARN.
C11_Witness ==
    /\ xpc = "done"
    /\ verdict.flags.missing_evidence = TRUE
    /\ LastEntry(raw.metrics, "M2").score = "PASS"
    /\ LastEntry(raw.metrics, "M6").score = "PASS"
    /\ verdict.metrics[2].score = "WARN"
    /\ verdict.metrics[6].score = "WARN"

-----------------------------------------------------------------------------
(* SpecParse: a run of a judge from the completion's text on *)

MaxResponse == 5        \* tokens of a response text

\* small alphabets of response tokens: prose around objects; nested objects
\* and commas; arrays; scalars and whitespace
ResponseThemes ==
    { {"{", "}", "m", "x"},
      {"{", "}", "k", ","},
      {"[", "]", "{", "}"},
      {"1", " ", "{", "}"} }

ResponseTexts == UNION { StringsOver(T, MaxResponse) : T \in ResponseThemes }

ParseInit ==
    /\ ppc = "called"
    /\ judge \in {"agent", "LaJ"}
    /\ response \in ResponseTexts
    /\ recovered = << >>
    /\ failure = "none"
    /\ returned = << >>
    /\ MatchIdle
    /\ GuardIdle
    /\ MetaIdle
    /\ FanIdle

\* parsed = self._parse_response(raw): an error it raises ends the run
CallParseResponse ==
    /\ ppc = "called"
    /\ \E r \in { ParseResponse(response) } :
           IF r.ok
           THEN /\ recovered' = r
                /\ ppc' = "parsed"
                /\ UNCHANGED failure
           ELSE /\ failure' = r.error
                /\ ppc' = "failed"
                /\ UNCHANGED recovered
    /\ UNCHANGED <<judge, response, returned, matchVars, guardVars, metaVars, fanVars>>

\* the guard pass raises on what the object holds (a metric id missing, an
\* evidence item that is no object)
GuardPassRaises ==
    /\ ppc = "parsed"
    /\ failure' = "guard"
    /\ ppc' = "failed"
    /\ UNCHANGED <<judge, response, recovered, returned, matchVars, guardVars,
                   metaVars, fanVars>>

\* the guard pass returns and run returns the verdict built from the object
ReturnVerdict ==
    /\ ppc = "parsed"
    /\ returned' = [judge |-> judge, from |-> recovered.obj]
    /\ ppc' = "returned"
    /\ UNCHANGED <<judge, response, recovered, failure, matchVars, guardVars,
                   metaVars, fanVars>>

ParseNext ==
    \/ CallParseResponse
    \/ GuardPassRaises
    \/ ReturnVerdict

SpecParse == ParseInit /\ [][ParseNext]_vars

-----------------------------------------------------------------------------
(* Properties of response parsing, under SpecParse *)

\* the text from the first { to the last } of t, empty when there is none
BraceSpan(t) ==
    IF \E i, j \in 1..Len(t) : i < j /\ t[i] = "{" /\ t[j] = "}"
    THEN SubSeq(t, Find(t, "{"), RFind(t, "}"))
    ELSE << >>

\* the JSON object a text is accepted for: the trimmed text if it is one
\* object, else its brace span if that is one, else none (the empty text)
AcceptedObject(text) ==
    IF JsonLoads(Strip(text)) = "dict" THEN Strip(text)
    ELSE IF JsonLoads(BraceSpan(Strip(text))) = "dict" THEN BraceSpan(Strip(text))
    ELSE << >>

\* C12: a response is accepted only as the object its trimmed text is or,
\* failing that, the object its text from the first { to the last } is;
\* for any other response the run ends with the parser's error and returns
\* no verdict, and a returned verdict is built from the accepted object.
C12_TwoStageRecovery ==
    /\ ppc \in {"parsed", "returned"}
            => /\ AcceptedObject(response) # << >>
               /\ recovered.obj = AcceptedObject(response)
    /\ (ppc # "called" /\ AcceptedObject(response) = << >>)
            => /\ ppc = "failed"
               /\ failure \in {"ValueError", "JSONDecodeError"}
               /\ recovered = << >>
    /\ ppc # "returned" => returned = << >>
    /\ ppc = "returned" => returned.from = AcceptedObject(response)

\* C12 witness: a text with an object and prose in it whose span from the
\* first { to the last } is no object; the run failed in the second stage
\* and returned nothing.
C12_Witness ==
    /\ ppc = "failed"
    /\ failure = "JSONDecodeError"
    /\ \E i \in 1..(Len(response) - 1) : response[i] = "{" /\ response[i + 1] = "}"
    /\ Find(response, "x") # 0
    /\ returned = << >>

-----------------------------------------------------------------------------
(* Further properties of the meta-evaluator, under SpecMeta *)

\* C13: a parsed response that lacks an entry for a required metric id ends
\* the run with KeyError: the guard pass does not complete and no verdict
\* is returned.
C13_MissingMetricFails ==
    (raw # << >> /\ raw.json /\ ~HoldsRequired(raw.metrics))
        => /\ xpc \notin {"guarded", "done"}
           /\ verdict = << >>
           /\ xpc = "failed" => raised = "KeyError"

\* C13 witness: a run that failed on a response with five of the six
\* metrics, M3 missing.
C13_Witness ==
    /\ xpc = "failed"
    /\ raised = "KeyError"
    /\ raw.json
    /\ Len(raw.metrics) = 5
    /\ \A i \in 1..5 : raw.metrics[i].metric_id # "M3"
    /\ verdict = << >>

\* C14 as stated: in a returned verdict the overall score and every metric
\* score are one of PASS, WARN, FAIL.
C14_Original ==
    xpc = "done"
        => /\ verdict.overall \in Scores
           /\ \A i \in 1..Len(verdict.metrics) : verdict.metrics[i].score \in Scores

\* what the flags are of a store, an evidence list and the strictness alone:
\* missing_evidence of an empty list; invalid_evidence_id of an item whose
\* id is empty or resolves to nothing; quote_mismatch, when strict, of an
\* item that resolves and whose quote is not found in its block
FlagsOf(p, ev, strict) ==
    [missing_evidence |-> ev = << >>,
     invalid_evidence_id |->
        \E k \in 1..Len(ev) :
            \/ Strip(ev[k].id) = << >>
            \/ ResolveBlock(p, Strip(ev[k].id)) = None,
     quote_mismatch |->
        /\ strict
        /\ \E k \in 1..Len(ev) :
            /\ Strip(ev[k].id) # << >>
            /\ Strip(ev[k].quote) # << >>
            /\ \E blk \in {ResolveBlock(p, Strip(ev[k].id))} :
                /\ blk # None
                /\ ~QuoteMatchesBlock(Strip(ev[k].quote), blk)]

\* C15: the flags a run computes are a function of the evidence store, the
\* cited evidence list and strict_quote_check alone; no later step of the
\* run changes them, and the verdict returns them as computed: whatever the
\* response says and whatever rating, rationale or uncertainty the judge
\* reported, two runs that agree on the three return the same flags.
C15_FlagsNotOverridable ==
    /\ [](Built => flags = FlagsOf(pack, EvidenceOf(agent_output), strict_quote_check))
    /\ [][xpc # "start" => UNCHANGED <<flags, pack, agent_output, strict_quote_check>>]_vars
    /\ [](xpc = "done" => verdict.flags = flags)

\* C15 witness: the judge rates itself GOOD and certain and the response
\* scores the verdict, M2 and M6 PASS, yet the verdict returned carries
\* quote_mismatch.
C15_Witness ==
    /\ xpc = "done"
    /\ agent_output.rating = "GOOD"
    /\ agent_output.uncertainty = FALSE
    /\ raw.overall = "PASS"
    /\ raw.metrics = AsAsked("PASS", "PASS")
    /\ verdict.flags.quote_mismatch = TRUE
    /\ verdict.flags.invalid_evidence_id = FALSE

\* C16: of a returned verdict, with M6 as the response scored it (its last
\* entry): M6 is WARN with the explanatory note in place of its notes
\* exactly when the response scored it FAIL and neither invalid_evidence_id
\* nor quote_mismatch is set, missing_evidence or not; with either flag set
\* a FAIL is returned as it came; a score other than FAIL keeps its notes.
C16_HallucinationClamp ==
    xpc = "done" =>
        \E asScored \in {LastEntry(raw.metrics, "M6")} :
        \E clean \in {~verdict.flags.invalid_evidence_id /\ ~verdict.flags.quote_mismatch} :
            /\ (asScored.score = "FAIL" /\ clean)
                   => /\ verdict.metrics[6].score = "WARN"
                      /\ verdict.metrics[6].notes = ClampNote
            /\ (asScored.score = "FAIL" /\ ~clean)
                   => verdict.metrics[6] = asScored
            /\ asScored.score # "FAIL"
                   => verdict.metrics[6].notes = asScored.notes
            /\ verdict.metrics[6].notes = ClampNote
                   <=> (asScored.score = "FAIL" /\ clean)

\* C16 witness: no evidence was cited, the response scored M6 FAIL, and the
\* verdict scores it WARN with the explanatory note.
C16_Witness ==
    /\ xpc = "done"
    /\ verdict.flags.missing_evidence = TRUE
    /\ LastEntry(raw.metrics, "M6").score = "FAIL"
    /\ verdict.metrics[6].score = "WARN"
    /\ verdict.metrics[6].notes = ClampNote

-----------------------------------------------------------------------------
(* SpecMatchShort: the matcher applied to blocks shorter than the window *)

MaxShortBlock == 6      \* words of a short block

\* quotes at the fuzzy threshold; of two quotes that differ by exchanging
\* the two block words, the one that does not start with the second
ThresholdQuotes ==
    { qw \in WordedQuotes(MinFuzzyTokens) : qw[1] # <<"b">> }

\* blocks of at most MaxShortBlock words: shorter than any window
ShortBlocks == UNION { [1..n -> BlockWords] : n \in 0..MaxShortBlock }

ShortInputs ==
    { <<JoinWords(qw), JoinWords(bw)>> : qw \in ThresholdQuotes, bw \in ShortBlocks }

MatchShortInit ==
    /\ mpc = "input"
    /\ \E inp \in ShortInputs : quote = inp[1] /\ block = inp[2]
    /\ matched = FALSE
    /\ GuardIdle
    /\ MetaIdle
    /\ ParseIdle
    /\ FanIdle

SpecMatchShort == MatchShortInit /\ [][MatchNext]_vars

\* a quote of 6 or more tokens against a block shorter than the window
ShortBlockCase ==
    /\ mpc = "done"
    /\ Len(Tokens(quote)) >= MinFuzzyTokens
    /\ Len(Tokens(block)) < Len(Tokens(quote)) + Slack

\* C17 as stated: against a block of fewer than W = n + 10 tokens the fuzzy
\* test is skipped, the result is exactly canonical or compact containment.
C17_Original ==
    ShortBlockCase
        => (matched <=> (CanonContained(quote, block) \/ CompactContained(quote, block)))

\* C17 amended: a block of fewer than W = n + 10 tokens is scanned as one
\* window, the whole block: the result is canonical or compact containment,
\* or the first ceil(0.8 n) quote tokens occurring in order in the block.
C17_ShortBlockOneWindow ==
    ShortBlockCase
        => (matched <=> \/ CanonContained(quote, block)
                        \/ CompactContained(quote, block)
                        \/ Embeds(SubSeq(Tokens(quote), 1, HitsNeeded(Len(Tokens(quote)))),
                                  Tokens(block)))

\* C17 witness: a quote matched against a shorter block that contains it in
\* neither form.
C17_Witness ==
    /\ ShortBlockCase
    /\ matched = TRUE
    /\ ~CanonContained(quote, block)
    /\ ~CompactContained(quote, block)
    /\ Len(Tokens(block)) < Len(Tokens(quote))

-----------------------------------------------------------------------------
(* SpecMatchWindows: the matcher applied to blocks of several windows *)

MaxWindowBlock == 6     \* words of a windowed block, its filler apart

\* blocks of MaxWindowBlock words and Slack + 1 filler words: longer than
\* the window of a quote at the fuzzy threshold
WindowedBlocks == { PaddedBlock(bw) : bw \in [1..MaxWindowBlock -> BlockWords] }

WindowedInputs ==
    { <<JoinWords(qw), JoinWords(bw)>> : qw \in ThresholdQuotes, bw \in WindowedBlocks }

MatchWindowsInit ==
    /\ mpc = "input"
    /\ \E inp \in WindowedInputs : quote = inp[1] /\ block = inp[2]
    /\ matched = FALSE
    /\ GuardIdle
    /\ MetaIdle
    /\ ParseIdle
    /\ FanIdle

SpecMatchWindows == MatchWindowsInit /\ [][MatchNext]_vars


\* C18: for a quote of n >= 6 tokens, the hit count of every scanned window
\* is the length of the longest prefix of the quote tokens that occurs in
\* order in the window; the fuzzy test succeeds exactly when some scanned
\* window holds the first ceil(0.8 n) quote tokens in order, and the call
\* returns that or a containment; a quote token absent from the block
\* among the first ceil(0.8 n) makes the fuzzy test fail.
C18_InOrderPrefixCount ==
    (mpc = "done" /\ Len(Tokens(quote)) >= MinFuzzyTokens) =>
        \E qt \in {Tokens(quote)} :
        \E bt \in {Tokens(block)} :
        \E fuzzy \in {TokenFuzzyMatch(quote, block)} :
            /\ \A i \in WindowStarts(Len(bt), Len(qt) + Slack) :
                \E window \in {Slice(bt, i, i + Len(qt) + Slack)} :
                \E hits \in {CountHits(window, qt, 1, 0, 0)} :
                    /\ Embeds(SubSeq(qt, 1, hits), window)
                    /\ hits < Len(qt) => ~Embeds(SubSeq(qt, 1, hits + 1), window)
            /\ fuzzy <=> \E i \in WindowStarts(Len(bt), Len(qt) + Slack) :
                            Embeds(SubSeq(qt, 1, HitsNeeded(Len(qt))),
                                   Slice(bt, i, i + Len(qt) + Slack))
            /\ matched <=> \/ CanonContained(quote, block)
                           \/ CompactContained(quote, block)
                           \/ fuzzy
            /\ (\E k \in AbsentPositions(quote, block) : k < HitsNeeded(Len(qt)))
                    => ~fuzzy

\* C18 witness: a matched quote that the block contains in neither form,
\* its last token in no block token, its other tokens in order in the
\* second window of the block and not in the first.
C18_Witness ==
    /\ mpc = "done" /\ matched = TRUE
    /\ Len(Tokens(quote)) = MinFuzzyTokens
    /\ ~CanonContained(quote, block)
    /\ ~CompactContained(quote, block)
    /\ AbsentPositions(quote, block) = {MinFuzzyTokens - 1}
    /\ Len(Tokens(block)) > MinFuzzyTokens + Slack
    /\ CountHits(Slice(Tokens(block), 0, MinFuzzyTokens + Slack), Tokens(quote), 1, 0, 0)
            < MinFuzzyTokens - 1
    /\ CountHits(Slice(Tokens(block), 1, 1 + MinFuzzyTokens + Slack), Tokens(quote), 1, 0, 0)
            = MinFuzzyTokens - 1

-----------------------------------------------------------------------------
(* Further properties of the evidence context, under SpecMeta *)

\* the positions of the store's text chunks whose id is cid, ignoring case
ChunksHeld(p, cid) ==
    {i \in 1..Len(p.text_chunks) : Lower(p.text_chunks[i].chunk_id) = Lower(cid)}

\* the citation's embedded block id is a text chunk id
CitesText(eid) ==
    \E cid \in {ExtractChunkId(eid)} :
        cid # None /\ Contains(Lower(cid), <<"_", "c">>)

\* C19: what a citation resolves to is decided by its first embedded block
\* id, letter case apart: a citation without one does not resolve; an id
\* with _c resolves to the raw text of the first text chunk of that id and
\* to nothing when no text chunk has it; an id with _t likewise among the
\* tables, to the fallback text; the bare id in lower case resolves to the
\* same, and so does every other citation that embeds the same id. What
\* resolves is in the context under its citation, what does not sets
\* invalid_evidence_id.
C19_ResolutionByFirstToken ==
    Built =>
        \A k \in 1..Len(EvidenceOf(agent_output)) :
            \E eid \in {Strip(EvidenceOf(agent_output)[k].id)} :
            \E cid \in {ExtractChunkId(eid)} :
            \E blk \in {ResolveBlock(pack, eid)} :
                /\ cid = None => blk = None
                /\ CitesText(eid) =>
                        IF ChunksHeld(pack, cid) # {}
                        THEN \E i \in ChunksHeld(pack, cid) :
                                /\ \A j \in ChunksHeld(pack, cid) : i <= j
                                /\ blk = pack.text_chunks[i].text
                        ELSE blk = None
                /\ CitesTable(eid) =>
                        IF TablesHeld(pack, cid) # {}
                        THEN \E i \in TablesHeld(pack, cid) :
                                /\ \A j \in TablesHeld(pack, cid) : i <= j
                                /\ blk = pack.tables[i].text
                        ELSE blk = None
                /\ cid # None => CitesText(eid) # CitesTable(eid)
                /\ cid # None => ResolveBlock(pack, Lower(cid)) = blk
                /\ \A l \in 1..Len(EvidenceOf(agent_output)) :
                        \E other \in {Strip(EvidenceOf(agent_output)[l].id)} :
                            (/\ cid # None
                             /\ ExtractChunkId(other) # None
                             /\ Lower(ExtractChunkId(other)) = Lower(cid))
                                => ResolveBlock(pack, other) = blk
                /\ IF blk = None
                   THEN flags.invalid_evidence_id = TRUE
                   ELSE \E i \in 1..Len(blocks) : blocks[i] = ContextBlock(eid, blk)

\* C19 witness: the same chunk cited in capitals with a trailing space and
\* ahead of a table id; both citations resolve to the chunk's raw text.
C19_Witness ==
    /\ Built
    /\ Len(EvidenceOf(agent_output)) = 2
    /\ EvidenceOf(agent_output)[1].id # EvidenceOf(agent_output)[2].id
    /\ \A k \in 1..2 :
            /\ Lower(ExtractChunkId(EvidenceOf(agent_output)[k].id)) = ChunkP03.chunk_id
            /\ ExtractChunkId(EvidenceOf(agent_output)[k].id) # EvidenceOf(agent_output)[k].id
    /\ ExtractChunkId(EvidenceOf(agent_output)[1].id) # ExtractChunkId(EvidenceOf(agent_output)[2].id)
    /\ CitesTable(SubSeq(EvidenceOf(agent_output)[2].id, 9, Len(EvidenceOf(agent_output)[2].id)))
    /\ flags.invalid_evidence_id = FALSE
    /\ Len(blocks) = 2
    /\ \A k \in 1..2 : blocks[k] = ContextBlock(Strip(EvidenceOf(agent_output)[k].id), TextOfChunk)

\* the agent output has no evidence key, or an empty evidence list
NoEvidenceCited ==
    \/ "evidence" \notin DOMAIN agent_output
    \/ agent_output.evidence = << >>

\* C20: with an empty or absent evidence list the programmatic check gives
\* missing_evidence alone and an empty evidence context; missing_evidence
\* is set for no other evidence list, so it is never set together with
\* invalid_evidence_id or quote_mismatch, in the flags of the run and in
\* those of the verdict.
C20_MissingEvidenceAlone ==
    /\ Built =>
          /\ NoEvidenceCited =>
                /\ flags = [missing_evidence |-> TRUE,
                            invalid_evidence_id |-> FALSE,
                            quote_mismatch |-> FALSE]
                /\ evidence_context = << >>
                /\ blocks = << >>
          /\ flags.missing_evidence = TRUE => NoEvidenceCited
          /\ ~(flags.missing_evidence /\ flags.invalid_evidence_id)
          /\ ~(flags.missing_evidence /\ flags.quote_mismatch)
    /\ xpc = "done" =>
          /\ verdict.flags.missing_evidence = TRUE <=> NoEvidenceCited
          /\ ~(verdict.flags.missing_evidence /\ verdict.flags.invalid_evidence_id)
          /\ ~(verdict.flags.missing_evidence /\ verdict.flags.quote_mismatch)

\* C20 witness: an agent output without the evidence key, under the strict
\* quote check; missing_evidence alone is set and the context is empty.
C20_Witness ==
    /\ Built
    /\ "evidence" \notin DOMAIN agent_output
    /\ strict_quote_check = TRUE
    /\ flags.missing_evidence = TRUE
    /\ flags.invalid_evidence_id = FALSE
    /\ flags.quote_mismatch = FALSE
    /\ evidence_context = << >>

\* the items of the evidence list ev whose id is empty or resolves to
\* nothing in the store p
Unresolved(p, ev) ==
    {k \in 1..Len(ev) : \/ Strip(ev[k].id) = << >>
                        \/ ResolveBlock(p, Strip(ev[k].id)) = None}

\* the resolved items of ev whose quote is not empty and is rejected by
\* quote_matches_block against the block the item resolves to
Rejected(p, ev) ==
    {k \in (1..Len(ev)) \ Unresolved(p, ev) :
        /\ Strip(ev[k].quote) # << >>
        /\ ~QuoteMatchesBlock(Strip(ev[k].quote), ResolveBlock(p, Strip(ev[k].id)))}

\* C21: for a non-empty evidence list, invalid_evidence_id is set exactly
\* when some item's id is empty or unresolvable, quote_mismatch exactly when
\* the strict quote check is on and some resolved item's non-empty quote is
\* rejected against its block; every item is processed, wherever a failing
\* item stands: each resolved item has its block in the context; items
\* with an empty quote set no quote_mismatch.
C21_FailuresRecordedNotFatal ==
    (Built /\ EvidenceOf(agent_output) # << >>) =>
        \E ev \in {EvidenceOf(agent_output)} :
        \E bad \in {Unresolved(pack, ev)} :
        \E rej \in {Rejected(pack, ev)} :
            /\ flags.invalid_evidence_id = TRUE <=> bad # {}
            /\ flags.quote_mismatch = TRUE <=> (strict_quote_check /\ rej # {})
            /\ \A k \in (1..Len(ev)) \ bad : HasBlockFor(blocks, Strip(ev[k].id))
            /\ (\A k \in 1..Len(ev) : Strip(ev[k].quote) = << >>)
                    => flags.quote_mismatch = FALSE
            /\ flags.missing_evidence = FALSE

\* C21 witness: the first item does not resolve, the second resolves and
\* its quote is rejected; both flags are set and the second item's block
\* is in the context.
C21_Witness ==
    /\ Built
    /\ strict_quote_check = TRUE
    /\ Len(EvidenceOf(agent_output)) = 2
    /\ Unresolved(pack, EvidenceOf(agent_output)) = {1}
    /\ Rejected(pack, EvidenceOf(agent_output)) = {2}
    /\ flags.invalid_evidence_id = TRUE
    /\ flags.quote_mismatch = TRUE
    /\ Len(blocks) = 1
    /\ HasBlockFor(blocks, Strip(EvidenceOf(agent_output)[2].id))

\* the block id of the store that the citation eid stands for, in lower
\* case as _resolve_block compares it
BlockIdOf(eid) == Lower(ExtractChunkId(eid))

\* C22 as stated: each block of the store is in the evidence context at
\* most once: no two blocks of the context are those of citations that
\* embed the same block id, however the citations are worded.
C22_Original ==
    Built =>
        \E ev \in {EvidenceOf(agent_output)} :
            \A i, j \in 1..Len(blocks) :
            \A k, l \in (1..Len(ev)) \ Unresolved(pack, ev) :
                (/\ i # j
                 /\ blocks[i] = ContextBlock(Strip(ev[k].id),
                                             ResolveBlock(pack, Strip(ev[k].id)))
                 /\ blocks[j] = ContextBlock(Strip(ev[l].id),
                                             ResolveBlock(pack, Strip(ev[l].id))))
                    => BlockIdOf(Strip(ev[k].id)) # BlockIdOf(Strip(ev[l].id))

\* the texts of the store's blocks: raw text of the chunks, fallback text
\* of the tables, each with its id in lower case
StoreBlocks(p) ==
    { [id |-> Lower(p.text_chunks[i].chunk_id), text |-> p.text_chunks[i].text] :
        i \in 1..Len(p.text_chunks) }
    \cup
    { [id |-> Lower(p.tables[i].table_id), text |-> p.tables[i].text] :
        i \in 1..Len(p.tables) }

\* the block ids embedded in the ids of the evidence list ev
CitedIds(ev) ==
    { BlockIdOf(Strip(ev[k].id)) : k \in {n \in 1..Len(ev) : ExtractChunkId(Strip(ev[n].id)) # None} }

\* the resolving items of ev whose citation heads the context block b
CitingItems(p, ev, b) ==
    {k \in (1..Len(ev)) \ Unresolved(p, ev) :
        b = ContextBlock(Strip(ev[k].id), ResolveBlock(p, Strip(ev[k].id)))}

\* C23: the evidence context is the blocks joined; every block of it is
\* the citation and resolved text of some evidence item, the text being
\* that of a store block whose id the item's id embeds; the text of a
\* store block that no item cites (and no cited block shares) occurs
\* nowhere in the context; the blocks stand in the order in which their
\* citations first occur in the evidence list.
C23_OnlyCitedBlocksInOrder ==
    Built =>
        \E ev \in {EvidenceOf(agent_output)} :
            /\ evidence_context = JoinBlocks(blocks)
            /\ \A i \in 1..Len(blocks) :
                \E k \in CitingItems(pack, ev, blocks[i]) :
                \E sb \in StoreBlocks(pack) :
                    /\ sb.id = BlockIdOf(Strip(ev[k].id))
                    /\ blocks[i] = ContextBlock(Strip(ev[k].id), sb.text)
            /\ \A sb \in StoreBlocks(pack) :
                (/\ sb.id \notin CitedIds(ev)
                 /\ sb.text # << >>
                 /\ \A cited \in StoreBlocks(pack) :
                        cited.id \in CitedIds(ev) => cited.text # sb.text)
                    => ~Contains(evidence_context, sb.text)
            /\ \A i, j \in 1..Len(blocks) :
                i < j =>
                    \E k \in CitingItems(pack, ev, blocks[i]) :
                        \A l \in CitingItems(pack, ev, blocks[j]) : k < l

\* C23 witness: the store holds a chunk and two tables; the agent cites a
\* table and then the chunk; the context holds the table's block, then the
\* chunk's, and nothing of the table that was not cited.
C23_Witness ==
    /\ Built
    /\ Len(pack.tables) = 2
    /\ Len(EvidenceOf(agent_output)) = 2
    /\ CitesTable(Strip(EvidenceOf(agent_output)[1].id))
    /\ CitesText(Strip(EvidenceOf(agent_output)[2].id))
    /\ Len(blocks) = 2
    /\ CitingItems(pack, EvidenceOf(agent_output), blocks[1]) = {1}
    /\ CitingItems(pack, EvidenceOf(agent_output), blocks[2]) = {2}
    /\ \E sb \in StoreBlocks(pack) :
            /\ sb.id \notin CitedIds(EvidenceOf(agent_output))
            /\ sb.text = FallbackOfTable
    /\ ~Contains(evidence_context, FallbackOfTable)

-----------------------------------------------------------------------------
(* Properties of the cue guards of D4 and D5, under SpecGuard *)

\* some word of the quote q is a person or role word
PersonWord(q) ==
    \E i \in 1..Len(Tokens(q)) : Tokens(q)[i] \in PERSON_TOKENS

\* a negative item whose quote holds no blame cue and no person or role
\* word
NoBlameNoPerson(e) ==
    /\ e.evidence_type = "negative"
    /\ ~AnyCue(Lower(e.quote), BLAME_CUES)
    /\ ~PersonWord(e.quote)

\* C24 as stated: for D4 and a verdict with evidence, a negative item whose
\* quote holds no blame cue and of which no word is a person or role word
\* makes the guarded verdict uncertain; when every negative item holds a
\* blame cue or a person or role word, this rule escalates nothing: a
\* verdict that came in certain and rating-consistent leaves certain.
C24_Original ==
    (Guarded /\ agent = "D4" /\ parsed.evidence # << >>) =>
        /\ (\E i \in 1..Len(parsed.evidence) : NoBlameNoPerson(parsed.evidence[i]))
                => result.uncertainty = TRUE
        /\ (/\ \A i \in 1..Len(parsed.evidence) : ~NoBlameNoPerson(parsed.evidence[i])
            /\ RatingConsistent(parsed)
            /\ parsed.uncertainty = FALSE)
                => result.uncertainty = FALSE

\* the letters of the cue c occur side by side in the quote q, in either
\* case, inside a word or across words
OccursIn(c, q) ==
    \E k \in 0..(Len(q) - Len(c)) :
        \A m \in 1..Len(c) : LowerChar(q[k + m]) = c[m]

CueIn(q, cues) == \E c \in cues : OccursIn(c, q)

\* a verdict with evidence that the other rules of the guard leave alone:
\* it came in certain and its rating is consistent with its items
OnlyCueRules(a) ==
    /\ Guarded /\ agent = a
    /\ parsed.evidence # << >>
    /\ RatingConsistent(parsed)
    /\ parsed.uncertainty = FALSE

C26_PositiveNeedsLocalCue ==
    (Guarded /\ agent = "D5" /\ parsed.evidence # << >>) =>
        /\ (\E i \in 1..Len(parsed.evidence) :
                /\ parsed.evidence[i].evidence_type = "positive"
                /\ ~CueIn(parsed.evidence[i].quote, LOCAL_RATIONALE_CUES))
              => result.uncertainty = TRUE
        /\ (/\ parsed.rating = "GOOD"
            /\ \A i \in 1..Len(parsed.evidence) :
                /\ parsed.evidence[i].evidence_type = "positive"
                /\ CueIn(parsed.evidence[i].quote, LOCAL_RATIONALE_CUES))
              => result.uncertainty = parsed.uncertainty

\* C26 witness: D5 rated GOOD, certain, on two positive items: one with a
\* contemporaneous-reasoning cue, one with neither such a cue nor a
\* reassurance word; the guarded verdict is uncertain.
C26_Witness ==
    /\ Guarded /\ agent = "D5"
    /\ parsed.rating = "GOOD"
    /\ parsed.uncertainty = FALSE
    /\ Len(parsed.evidence) = 2
    /\ \A i \in 1..2 : parsed.evidence[i].evidence_type = "positive"
    /\ CueIn(parsed.evidence[1].quote, LOCAL_RATIONALE_CUES)
    /\ ~CueIn(parsed.evidence[2].quote, LOCAL_RATIONALE_CUES)
    /\ ~CueIn(parsed.evidence[2].quote, REASSURANCE_CUES)
    /\ parsed.evidence[2].quote # << >>
    /\ result.uncertainty = TRUE

\* C27 as stated: for D5 and a verdict with evidence, a negative item in
\* whose quote a counterfactual cue occurs makes the guarded verdict
\* uncertain; a verdict rated LITTLE, certain, whose one item is negative
\* with a hindsight cue and no counterfactual cue leaves the guard certain.
C27_Original ==
    (Guarded /\ agent = "D5" /\ parsed.evidence # << >>) =>
        /\ (\E i \in 1..Len(parsed.evidence) :
                /\ parsed.evidence[i].evidence_type = "negative"
                /\ CueIn(parsed.evidence[i].quote, COUNTERFACTUAL_CUES))
              => result.uncertainty = TRUE
        /\ (/\ parsed.rating = "LITTLE"
            /\ parsed.uncertainty = FALSE
            /\ Len(parsed.evidence) = 1
            /\ parsed.evidence[1].evidence_type = "negative"
            /\ CueIn(parsed.evidence[1].quote, HINDSIGHT_CUES)
            /\ ~CueIn(parsed.evidence[1].quote, COUNTERFACTUAL_CUES))
              => result.uncertainty = FALSE

-----------------------------------------------------------------------------
(* Further properties of the meta-evaluator's run, under SpecMeta *)

\* C28: of a returned verdict and the response it was made from: M1, M3,
\* M4 and M5 are returned as scored (the last entry of each id); no metric
\* is PASS that the response did not score PASS; overall differs from the
\* response's only as WARN for PASS, and only with invalid_evidence_id or
\* quote_mismatch set; with missing_evidence alone, an overall of PASS is
\* returned as PASS while M2 and M6 are not PASS.
C28_GuardOnlyLowers ==
    xpc = "done" =>
        /\ \A i \in {1, 3, 4, 5} :
                verdict.metrics[i] = LastEntry(raw.metrics, Required[i])
        /\ \A i \in 1..Len(Required) :
                /\ verdict.metrics[i].metric_id = Required[i]
                /\ verdict.metrics[i].score = "PASS"
                        => LastEntry(raw.metrics, Required[i]).score = "PASS"
        /\ verdict.overall # raw.overall
                => /\ raw.overall = "PASS"
                   /\ verdict.overall = "WARN"
                   /\ (verdict.flags.invalid_evidence_id \/ verdict.flags.quote_mismatch)
        /\ (verdict.flags.missing_evidence /\ raw.overall = "PASS")
                => /\ verdict.overall = "PASS"
                   /\ verdict.metrics[2].score # "PASS"
                   /\ verdict.metrics[6].score # "PASS"

\* C28 witness: no evidence was cited and the response scored overall, M2
\* and M6 PASS: the verdict is overall PASS with M2 and M6 WARN, M5 FAIL as
\* scored.
C28_Witness ==
    /\ xpc = "done"
    /\ verdict.flags.missing_evidence = TRUE
    /\ raw.overall = "PASS"
    /\ raw.metrics = AsAsked("PASS", "PASS")
    /\ verdict.overall = "PASS"
    /\ verdict.metrics[2].score = "WARN"
    /\ verdict.metrics[6].score = "WARN"
    /\ verdict.metrics[5] = Metric("M5", "FAIL")

\* the order of the steps of run: each pair is a position and the one that
\* may follow it
StepOrder ==
    { <<"start", "built">>,
      <<"built", "called">>, <<"built", "failed">>,
      <<"called", "parsed">>, <<"called", "failed">>,
      <<"parsed", "guarded">>, <<"parsed", "failed">>,
      <<"guarded", "done">> }

\* C29: a run moves through its steps in one order, none taken twice:
\* flags and context, the completion call, parsing, the guard, the return.
\* The response is received in the one step that follows the flags, missing
\* evidence or not; it is parsed only after that and guarded only after
\* parsing. A run whose call failed has stopped: it holds no response, no
\* parsed result and no verdict, and takes no further step.
C29_StepsInOrderOneCall ==
    /\ [][\E s \in StepOrder : xpc = s[1] /\ xpc' = s[2]]_vars
    /\ [][raw' # raw => (xpc = "built" /\ xpc' = "called" /\ flags # << >>)]_vars
    /\ [][laj_parsed' # laj_parsed => xpc \in {"called", "parsed"}]_vars
    /\ [](xpc = "called" => (raw # << >> /\ laj_parsed = << >> /\ verdict = << >>))
    /\ [](xpc = "parsed" => laj_parsed = [overall |-> raw.overall, metrics |-> raw.metrics])
    /\ [](raised = "completion"
            => (xpc = "failed" /\ raw = << >> /\ laj_parsed = << >> /\ verdict = << >>))
    /\ [](verdict # << >> => (xpc = "done" /\ raised = "none" /\ verdict.raw_output = raw))

\* C29 witness: no evidence was cited, the flags say so, the completion
\* call was made and failed: the run has stopped without a verdict.
C29_Witness ==
    /\ xpc = "failed"
    /\ raised = "completion"
    /\ flags # << >>
    /\ flags.missing_evidence = TRUE
    /\ raw = << >>
    /\ verdict = << >>

-----------------------------------------------------------------------------
(* SpecFanOut: the meta-evaluations of several dimensions over one store *)

\* the dimensions whose evaluations run side by side
FanDims == {"D4", "D5"}

\* DIMENSION_NAME of the judge of dimension d
DimensionName(d) ==
    IF d = "D4" THEN "Blame language avoided" ELSE "Local rationality"

\* the output of the judge of dimension d: no evidence, or one cited item
FanOutputs(d) ==
    { [agent_id |-> d, dimension |-> DimensionName(d),
       rating |-> "GOOD", rationale |-> "as judged",
       evidence |-> ev, uncertainty |-> FALSE] :
        ev \in {<< >>} \cup { <<c>> : c \in CitedItems } }

\* what a completion may return: text without an object, the six metrics
\* as asked, or a list without M3
FanResponses ==
    { [json |-> FALSE],
      [json |-> TRUE, overall |-> "PASS", metrics |-> AsAsked("PASS", "PASS")],
      [json |-> TRUE, overall |-> "PASS",
       metrics |-> SelectSeq(AsAsked("PASS", "FAIL"), LAMBDA m : m.metric_id # "M3")] }

\* the locals of a call of run before its first statement
FreshFrame ==
    [pc |-> "start", flags |-> << >>, evidence_context |-> << >>,
     raw |-> << >>, parsed |-> << >>, raised |-> "none"]

\* the dict run returns for agent output ao, flags fl, response rw and the
\* guarded response g
VerdictOf(ao, fl, rw, g) ==
    [judge_id |-> "LaJ", agent_id |-> ao.agent_id, dimension |-> ao.dimension,
     overall |-> g.overall, metrics |-> g.metrics, flags |-> fl,
     raw_output |-> rw]

FanInit ==
    /\ store \in Packs
    /\ outputs \in [FanDims -> UNION { FanOutputs(d) : d \in FanDims }]
    /\ \A d \in FanDims : outputs[d] \in FanOutputs(d)
    /\ frames = [d \in FanDims |-> FreshFrame]
    /\ results = [d \in FanDims |-> << >>]
    /\ MatchIdle
    /\ GuardIdle
    /\ MetaIdle
    /\ ParseIdle

\* flags, evidence_context = self._build_evidence_context(...), in the run
\* of dimension d
FanBuildContext(d) ==
    /\ frames[d].pc = "start"
    /\ \E built \in {BuildEvidenceContext(store, outputs[d], TRUE)} :
           frames' = [frames EXCEPT ![d].flags = built.flags,
                                    ![d].evidence_context = built.context,
                                    ![d].pc = "built"]
    /\ UNCHANGED <<store, outputs, results, matchVars, guardVars, metaVars,
                   parseVars>>

\* raw = self.model.complete(prompt), in the run of dimension d
FanComplete(d) ==
    /\ frames[d].pc = "built"
    /\ \E rw \in FanResponses :
           frames' = [frames EXCEPT ![d].raw = rw, ![d].pc = "called"]
    /\ UNCHANGED <<store, outputs, results, matchVars, guardVars, metaVars,
                   parseVars>>

\* the completion call of dimension d raises
FanCompleteFails(d) ==
    /\ frames[d].pc = "built"
    /\ frames' = [frames EXCEPT ![d].raised = "completion", ![d].pc = "failed"]
    /\ UNCHANGED <<store, outputs, results, matchVars, guardVars, metaVars,
                   parseVars>>

\* a parse failure of dimension d that ends every run still under way
FanParseAbortsAll(d) ==
    /\ frames[d].pc = "called"
    /\ IF frames[d].raw.json
       THEN frames' = [frames EXCEPT
                         ![d].parsed = [overall |-> frames[d].raw.overall,
                                        metrics |-> frames[d].raw.metrics],
                         ![d].pc = "parsed"]
       ELSE frames' = [e \in FanDims |->
                         IF frames[e].pc \in {"done", "failed"}
                         THEN frames[e]
                         ELSE [frames[e] EXCEPT !.raised = "ValueError",
                                                !.pc = "failed"]]
    /\ UNCHANGED <<store, outputs, results, matchVars, guardVars, metaVars,
                   parseVars>>

\* parsed = self._parse_response(raw), in the run of dimension d
FanParse(d) ==
    /\ frames[d].pc = "called"
    /\ IF frames[d].raw.json
       THEN frames' = [frames EXCEPT
                         ![d].parsed = [overall |-> frames[d].raw.overall,
                                        metrics |-> frames[d].raw.metrics],
                         ![d].pc = "parsed"]
       ELSE frames' = [frames EXCEPT ![d].raised = "ValueError",
                                     ![d].pc = "failed"]
    /\ UNCHANGED <<store, outputs, results, matchVars, guardVars, metaVars,
                   parseVars>>

\* parsed = self._apply_guards(parsed, flags=flags), in the run of dimension d
FanApplyGuards(d) ==
    /\ frames[d].pc = "parsed"
    /\ \E g \in {MetaGuards(frames[d].parsed, frames[d].flags)} :
           IF g = KeyError
           THEN frames' = [frames EXCEPT ![d].raised = "KeyError",
                                         ![d].pc = "failed"]
           ELSE frames' = [frames EXCEPT ![d].parsed = g, ![d].pc = "guarded"]
    /\ UNCHANGED <<store, outputs, results, matchVars, guardVars, metaVars,
                   parseVars>>

\* the dict the run of dimension d returns
FanReturn(d) ==
    /\ frames[d].pc = "guarded"
    /\ results' = [results EXCEPT
                     ![d] = VerdictOf(outputs[d], frames[d].flags,
                                      frames[d].raw, frames[d].parsed)]
    /\ frames' = [frames EXCEPT ![d].pc = "done"]
    /\ UNCHANGED <<store, outputs, matchVars, guardVars, metaVars, parseVars>>

FanNext ==
    \E d \in FanDims :
        \/ FanBuildContext(d)
        \/ FanComplete(d)
        \/ FanCompleteFails(d)
        \/ FanParse(d)
        \/ FanApplyGuards(d)
        \/ FanReturn(d)

SpecFanOut == FanInit /\ [][FanNext]_vars

-----------------------------------------------------------------------------
(* Properties of runs side by side, under SpecFanOut *)

\* how a run ends that is alone with store p, agent output ao and response
\* rw: the error it raises, or the dict it returns
RunAlone(p, ao, rw) ==
    IF ~rw.json
    THEN [raised |-> "ValueError", returned |-> << >>]
    ELSE \* one call site each
         LET fl == BuildEvidenceContext(p, ao, TRUE).flags
             g == MetaGuards([overall |-> rw.overall, metrics |-> rw.metrics], fl)
         IN  IF g = KeyError
             THEN [raised |-> "KeyError", returned |-> << >>]
             ELSE [raised |-> "none", returned |-> VerdictOf(ao, fl, rw, g)]

\* the run of dimension d has ended after its completion call returned
Ended(d) ==
    /\ frames[d].pc \in {"done", "failed"}
    /\ frames[d].raised # "completion"

\* C30: no step of any run writes the evidence store or an agent output; a
\* step of one dimension's run, a parse failure included, leaves the locals
\* and the result of every other dimension's run as they were; and however
\* the steps interleave, a run that has ended has ended as it would alone
\* with the same store, agent output and the response it received
C30_RunsIndependent ==
    /\ [][store' = store /\ outputs' = outputs]_vars
    /\ [][\A d \in FanDims :
            frames'[d] # frames[d] =>
                \A e \in FanDims \ {d} :
                    frames'[e] = frames[e] /\ results'[e] = results[e]]_vars
    /\ [](\A d \in FanDims :
            Ended(d) =>
                /\ frames[d].raw \in FanResponses
                /\ \E alone \in {RunAlone(store, outputs[d], frames[d].raw)} :
                       /\ frames[d].raised = alone.raised
                       /\ results[d] = alone.returned)

\* C30 witness: the run of D4 failed to parse its response, and the run of
\* D5 returned a verdict whose flags record a quote mismatch
C30_Witness ==
    /\ frames # << >>
    /\ frames["D4"].raised = "ValueError"
    /\ frames["D5"].pc = "done"
    /\ results["D5"] # << >>
    /\ results["D5"].flags.quote_mismatch

=============================================================================
